---- MODULE Spec2Model ----
(***************************************************************************)
(* Model of git-statuses: repository discovery (Args::find_repositories)   *)
(* with its directory walk and its worker pool, status classification      *)
(* (Status::new), divergence analysis, the per-repository report           *)
(* (RepoInfo::new), the stash count and the fast-forward (merge_ff).       *)
(*                                                                         *)
(* A repository is a record of what the git2 calls of the code observe.    *)
(* Commits are modelled by the set of commits reachable from them, so      *)
(* graph_ahead_behind is two set differences and a revwalk is a            *)
(* cardinality.                                                            *)
(***************************************************************************)
EXTENDS Integers, Sequences, FiniteSets, TLC

VARIABLES
    args,          \* the Args of the scan: subdir, fetch, remote, fast_forward, depth
    disk,          \* walked entry, or directory of the tree -> what is on disk
                   \* there (directory shape, repository)
    pc,            \* walked entry -> position of the worker closure processing it
    out,           \* walked entry -> local result of the worker (name, report or error)
    tmp,           \* walked entry -> the vector as read by the worker's push
    lock_repos,    \* holder of the write lock of repos (0: free)
    lock_failed,   \* holder of the write lock of failed_repos (0: free)
    repos,         \* Arc<RwLock<Vec<RepoInfo>>>
    failed_repos,  \* Arc<RwLock<Vec<String>>>
    returned,      \* the pair find_repositories returned (<<>>: not yet)
    repo,          \* the repository a single gitinfo function is applied to
    call,          \* the last gitinfo call on repo and its result
    walker,        \* the entries WalkDir yielded, errors filtered out
    scans,         \* the pairs consecutive find_repositories calls returned
    main_repos,    \* the Vec<RepoInfo> main holds after the scan
    stdout,        \* what repositories_table returned and wrote (<<>>: not called)
    ui             \* the InteractiveMode, its terminal and the position of run()

vars == <<args, disk, pc, out, tmp, lock_repos, lock_failed, repos,
          failed_repos, returned, repo, call, walker, scans, main_repos,
          stdout, ui>>

scanVars == <<args, disk, pc, out, tmp, lock_repos, lock_failed, repos,
              failed_repos, returned>>

unitVars == <<repo, call>>

runVars == <<walker, scans>>

viewVars == <<main_repos, stdout, ui>>

----------------------------------------------------------------------------
(* Option and Result *)

None == <<>>

Some(x) == <<x>>

Ok(v) == [ok |-> TRUE, val |-> v]

Err(e) == [ok |-> FALSE, err |-> e]

----------------------------------------------------------------------------
(* Strings as sequences of characters, for paths and URLs *)

RECURSIVE trim_end_matches(_, _)
trim_end_matches(s, suf) ==
    IF Len(suf) > 0 /\ Len(s) >= Len(suf)
       /\ SubSeq(s, Len(s) - Len(suf) + 1, Len(s)) = suf
    THEN trim_end_matches(SubSeq(s, 1, Len(s) - Len(suf)), suf)
    ELSE s

RECURSIVE rsplit_first(_, _)
\* the last piece of s.split(sep): everything after the last sep
rsplit_first(s, sep) ==
    IF Len(s) = 0 THEN <<>>
    ELSE IF s[Len(s)] = sep THEN <<>>
    ELSE Append(rsplit_first(SubSeq(s, 1, Len(s) - 1), sep), s[Len(s)])

----------------------------------------------------------------------------
(* Commits *)

\* a commit is the set of commits reachable from it (itself included)
CommitA == {1}

CommitB == {1, 2}

CommitC == {1, 2, 3}

CommitD == {1, 4}

Commits == {CommitA, CommitB, CommitC, CommitD}

\* git_graph_ahead_behind, when it succeeds
graph_ahead_behind(local, up) ==
    <<Cardinality(local \ up), Cardinality(up \ local)>>

----------------------------------------------------------------------------
(* Status *)

RepositoryState ==
    {"Clean", "Merge", "Revert", "RevertSequence", "CherryPick",
     "CherryPickSequence", "Bisect", "Rebase", "RebaseInteractive",
     "RebaseMerge", "ApplyMailbox", "ApplyMailboxOrRebase"}

St(tag) == [tag |-> tag, count |-> 0]

Dirty(n) == [tag |-> "Dirty", count |-> n]

\* the git2::Status flags of one entry of the working tree or index
Files ==
    {"untracked", "modified", "staged_modified", "deleted", "staged_new",
     "conflicted", "ignored", "typechange"}

FileStatus(f) ==
    CASE f = "untracked"       -> {"WT_NEW"}
      [] f = "modified"        -> {"WT_MODIFIED"}
      [] f = "staged_modified" -> {"INDEX_MODIFIED", "WT_MODIFIED"}
      [] f = "deleted"         -> {"WT_DELETED"}
      [] f = "staged_new"      -> {"INDEX_NEW"}
      [] f = "conflicted"      -> {"CONFLICTED"}
      [] f = "ignored"         -> {"IGNORED"}
      [] f = "typechange"      -> {"WT_TYPECHANGE"}

ChangeFlags ==
    {"WT_NEW", "WT_MODIFIED", "WT_DELETED", "INDEX_NEW", "INDEX_MODIFIED",
     "INDEX_DELETED", "CONFLICTED"}

\* repo.statuses(opts): the entries listed under the given options
statuses(r, include_untracked, include_ignored) ==
    {f \in r.wt :
        /\ ("IGNORED" \in FileStatus(f) => include_ignored)
        /\ ("WT_NEW" \in FileStatus(f) => include_untracked)}

----------------------------------------------------------------------------
(* gitinfo *)

RemoteNames == {"origin", "upstream"}

\* what refs/remotes/<remote>/main holds: nothing, a symbolic reference
\* (no direct target) or a commit
Absent == [kind |-> "absent", oid |-> {}]

Symbolic == [kind |-> "symbolic", oid |-> {}]

Direct(c) == [kind |-> "direct", oid |-> c]

HeadKinds == {"missing", "unborn", "detached", "branch", "badname"}

\* repo.head(): an error when HEAD is missing or points to an unborn branch
head_ok(r) == r.head \in {"detached", "branch", "badname"}

\* Reference::is_branch of the resolved HEAD
head_is_branch(r) == r.head \in {"branch", "badname"}

Main == <<"m", "a", "i", "n">>

RefsHeads == <<"r", "e", "f", "s", "/", "h", "e", "a", "d", "s", "/">>

\* the name HEAD holds when it is symbolic: refs/heads/<branch>
head_symbolic_target(r) == RefsHeads \o r.branch

\* Reference::shorthand of the resolved HEAD (None: not valid UTF-8)
head_shorthand(r) ==
    CASE r.head = "branch"   -> Some(r.branch)
      [] r.head = "detached" -> Some(<<"H", "E", "A", "D">>)
      [] OTHER               -> None

\* Reference::target of the resolved HEAD
head_target(r) == IF head_ok(r) THEN Some(r.tip) ELSE None

\* repo.find_branch(name, BranchType::Local)
find_branch(r, name) == IF name = r.branch /\ r.head = "branch" THEN Some(name) ELSE None

\* Branch::upstream: the configured upstream reference, when it exists
branch_upstream(r) ==
    IF r.upstream /= None /\ r.tracking[r.upstream[1]].kind /= "absent"
    THEN Some(r.upstream[1]) ELSE None

\* Reference::target of refs/remotes/<remote>/main
ref_target(r, remote) ==
    IF r.tracking[remote].kind = "direct" THEN Some(r.tracking[remote].oid) ELSE None

\* the resolution that takes the first remote of the enumeration
get_remote_name_first(r) ==
    IF Len(r.remotes) > 0 THEN Some(r.remotes[1]) ELSE None

get_remote_name(r) ==
    IF \E i \in 1..Len(r.remotes) : r.remotes[i] = "origin" THEN Some("origin")
    ELSE IF Len(r.remotes) > 0 THEN Some(r.remotes[1])
    ELSE None

get_repo_path(r) == r.path

Slash == "/"

DotGit == <<".", "g", "i", "t">>

get_repo_name(r) ==
    IF get_remote_name(r) = None THEN None
    ELSE Some(rsplit_first(trim_end_matches(r.url[get_remote_name(r)[1]], DotGit), Slash))

\* repo.find_reference("HEAD") and its symbolic target: HEAD itself, not
\* resolved, when the file is there and names a branch
find_reference_HEAD(r) ==
    IF r.head \in {"unborn", "branch"} THEN Some(head_symbolic_target(r)) ELSE None

NoBranch == <<"(", "n", "o", " ", "b", "r", "a", "n", "c", "h", ")">>

DetachedMarker == <<"N", "/", "A">>

NoCommits == <<" ", "(", "n", "o", " ", "c", "o", "m", "m", "i", "t", "s", ")">>

\* a resolved HEAD has no symbolic target, so a branch whose shorthand is
\* not valid UTF-8 falls through to the last line
get_branch_name(r) ==
    IF head_ok(r)
    THEN IF head_is_branch(r)
         THEN IF head_shorthand(r) /= None THEN head_shorthand(r)[1]
              ELSE NoBranch
         ELSE DetachedMarker
    ELSE IF find_reference_HEAD(r) /= None
    THEN rsplit_first(find_reference_HEAD(r)[1], Slash) \o NoCommits
    ELSE NoBranch

\* the divergence analyzer that reports a branch without upstream as tracked
get_ahead_behind_and_local_status_tracked(r) ==
    IF ~head_ok(r) THEN <<0, 0, TRUE>>
    ELSE LET branch == IF head_shorthand(r) = None THEN None
                       ELSE find_branch(r, head_shorthand(r)[1])
         IN  IF branch /= None /\ branch_upstream(r) /= None
             THEN LET local_oid == Some(r.tip)
                      upstream_oid == ref_target(r, branch_upstream(r)[1])
                  IN  IF local_oid /= None /\ upstream_oid /= None
                      THEN IF r.graph_ok
                           THEN LET ab == graph_ahead_behind(local_oid[1], upstream_oid[1])
                                IN  <<ab[1], ab[2], FALSE>>
                           ELSE <<0, 0, FALSE>>
                      ELSE <<0, 0, TRUE>>
             ELSE <<0, 0, FALSE>>

get_ahead_behind_and_local_status(r) ==
    IF ~head_ok(r) THEN <<0, 0, TRUE>>
    ELSE LET branch == IF head_shorthand(r) = None THEN None
                       ELSE find_branch(r, head_shorthand(r)[1])
         IN  IF branch /= None /\ branch_upstream(r) /= None
             THEN LET local_oid == Some(r.tip)
                      upstream_oid == ref_target(r, branch_upstream(r)[1])
                  IN  IF local_oid /= None /\ upstream_oid /= None
                      THEN IF r.graph_ok
                           THEN LET ab == graph_ahead_behind(local_oid[1], upstream_oid[1])
                                IN  <<ab[1], ab[2], FALSE>>
                           ELSE <<0, 0, FALSE>>
                      ELSE <<0, 0, TRUE>>
             ELSE <<0, 0, TRUE>>

get_total_commits(r) ==
    IF ~head_ok(r) THEN Ok(0)
    ELSE IF head_target(r) = None THEN Ok(0)
    ELSE IF ~r.revwalk_ok THEN Err("revwalk")
    ELSE Ok(Cardinality(head_target(r)[1]))

\* the count that leaves untracked files out
get_changed_count_tracked_only(r) ==
    IF r.count_ok
    THEN Cardinality({f \in statuses(r, FALSE, FALSE) :
                         FileStatus(f) \cap ChangeFlags /= {}})
    ELSE 0

get_changed_count(r) ==
    IF r.count_ok
    THEN Cardinality({f \in statuses(r, TRUE, FALSE) :
                         FileStatus(f) \cap ChangeFlags /= {}})
    ELSE 0

get_remote_url(r) ==
    IF get_remote_name(r) = None THEN None
    ELSE Some(r.url[get_remote_name(r)[1]])

\* the outcome of `git fetch <remote>`
fetch_origin(r) ==
    IF get_remote_name(r) = None THEN Err("No remotes found")
    ELSE IF ~r.fetch_ok THEN Err("Failed to fetch")
    ELSE Ok(<<>>)

\* the repository after fetch_origin ran: a successful fetch moves the
\* a fetch that brings nothing
after_fetch_stale(r) == r

\* remote-tracking reference of the fetched remote to the remote's tip
after_fetch(r) ==
    IF fetch_origin(r).ok
    THEN [r EXCEPT !.tracking[get_remote_name(r)[1]] = Direct(r.server)]
    ELSE r

\* the push status that looks at the behind count
get_branch_push_status_behind(r) ==
    IF ~head_ok(r) THEN St("Unknown")
    ELSE IF ~head_is_branch(r) THEN St("Detached")
    ELSE IF head_shorthand(r) = None THEN St("Unknown")
    ELSE IF head_target(r) = None THEN St("Unknown")
    ELSE IF get_remote_name(r) = None THEN St("Unpublished")
    ELSE IF r.tracking[get_remote_name(r)[1]].kind = "absent" THEN St("Unpublished")
    ELSE IF ref_target(r, get_remote_name(r)[1]) = None THEN St("Unpublished")
    ELSE IF ~r.graph_ok THEN St("Unknown")
    ELSE IF graph_ahead_behind(head_target(r)[1],
                               ref_target(r, get_remote_name(r)[1])[1])[2] > 0
         THEN St("Unpushed")
    ELSE St("Clean")

get_branch_push_status(r) ==
    IF ~head_ok(r) THEN St("Unknown")
    ELSE IF ~head_is_branch(r) THEN St("Detached")
    ELSE IF head_shorthand(r) = None THEN St("Unknown")
    ELSE IF head_target(r) = None THEN St("Unknown")
    ELSE IF get_remote_name(r) = None THEN St("Unpublished")
    ELSE IF r.tracking[get_remote_name(r)[1]].kind = "absent" THEN St("Unpublished")
    ELSE IF ref_target(r, get_remote_name(r)[1]) = None THEN St("Unpublished")
    ELSE IF ~r.graph_ok THEN St("Unknown")
    ELSE IF graph_ahead_behind(head_target(r)[1],
                               ref_target(r, get_remote_name(r)[1])[1])[1] > 0
         THEN St("Unpushed")
    ELSE St("Clean")

RECURSIVE count_entries(_, _)
\* the callback of get_stash_count run on n stash entries: count += 1; true
count_entries(n, count) == IF n = 0 THEN count ELSE count_entries(n - 1, count + 1)

\* Repository::stash_foreach with the callback of get_stash_count: a listing
\* that fails does so when the stash reference or its log is read, before the
\* first entry is handed to the callback
stash_foreach(r, count) ==
    IF r.stash_ok THEN [res |-> Ok(TRUE), count |-> count_entries(r.stashes, count)]
    ELSE [res |-> Err("stash"), count |-> count]

\* a count of the stash entries that are there, listed or not
get_stash_count_unlisted(r) == r.stashes

\* the result of stash_foreach is dropped, the count is returned
get_stash_count(r) == stash_foreach(r, 0).count

\* MergeAnalysis::is_fast_forward: the local tip is an ancestor of the
\* upstream commit and not that commit itself
is_fast_forward(local, up) == local \subseteq up /\ local /= up

\* a fast-forward that reports success and moves nothing
merge_ff_no_move(r) ==
    IF ~head_ok(r) THEN [res |-> Err("head"), repo |-> r]
    ELSE IF ~head_is_branch(r) THEN [res |-> Ok(FALSE), repo |-> r]
    ELSE IF branch_upstream(r) = None THEN [res |-> Err("upstream"), repo |-> r]
    ELSE IF ref_target(r, branch_upstream(r)[1]) = None
         THEN [res |-> Err("annotated commit"), repo |-> r]
    ELSE LET c == ref_target(r, branch_upstream(r)[1])[1]
         IN  IF r.merge_ok /\ is_fast_forward(r.tip, c) /\ ~r.no_ff
             THEN [res |-> Ok(TRUE), repo |-> r]
             ELSE [res |-> Ok(FALSE), repo |-> r]

\* a fast-forward that moves the branch and says it did not
merge_ff_silent(r) ==
    IF ~head_ok(r) THEN [res |-> Err("head"), repo |-> r]
    ELSE IF ~head_is_branch(r) THEN [res |-> Ok(FALSE), repo |-> r]
    ELSE IF branch_upstream(r) = None THEN [res |-> Err("upstream"), repo |-> r]
    ELSE IF ref_target(r, branch_upstream(r)[1]) = None
         THEN [res |-> Err("annotated commit"), repo |-> r]
    ELSE LET c == ref_target(r, branch_upstream(r)[1])[1]
         IN  IF r.merge_ok /\ is_fast_forward(r.tip, c) /\ ~r.no_ff
             THEN [res |-> Ok(FALSE), repo |-> [r EXCEPT !.checkout = c, !.tip = c]]
             ELSE [res |-> Ok(FALSE), repo |-> r]

\* merge_ff: the result and the repository it leaves. The upstream reference
\* is taken to be a direct one when it exists
merge_ff(r) ==
    IF ~head_ok(r) THEN [res |-> Err("head"), repo |-> r]
    ELSE IF ~head_is_branch(r) THEN [res |-> Ok(FALSE), repo |-> r]
    ELSE IF branch_upstream(r) = None THEN [res |-> Err("upstream"), repo |-> r]
    ELSE IF ref_target(r, branch_upstream(r)[1]) = None
         THEN [res |-> Err("annotated commit"), repo |-> r]
    ELSE LET c == ref_target(r, branch_upstream(r)[1])[1]
         IN  IF r.merge_ok /\ is_fast_forward(r.tip, c) /\ ~r.no_ff
             THEN IF ~r.checkout_ok
                  THEN [res |-> Err("checkout"), repo |-> r]
                  ELSE IF ~r.set_target_ok
                  THEN [res |-> Err("set_target"), repo |-> [r EXCEPT !.checkout = c]]
                  ELSE [res |-> Ok(TRUE),
                        repo |-> [r EXCEPT !.checkout = c, !.tip = c]]
             ELSE [res |-> Ok(FALSE), repo |-> r]

----------------------------------------------------------------------------
(* gitinfo::status *)

\* the classifier that looks at the working tree before the repository state
Status_new_tree_first(r) ==
    IF r.list_ok /\ \E f \in statuses(r, TRUE, FALSE) :
                       FileStatus(f) \cap ChangeFlags /= {}
    THEN Dirty(get_changed_count(r))
    ELSE CASE r.state = "Clean" ->
                IF ~r.list_ok THEN St("Unknown") ELSE get_branch_push_status(r)
           [] r.state = "Merge" -> St("Merge")
           [] r.state \in {"Revert", "RevertSequence"} -> St("Revert")
           [] r.state \in {"CherryPick", "CherryPickSequence"} -> St("CherryPick")
           [] r.state = "Bisect" -> St("Bisect")
           [] r.state \in {"Rebase", "RebaseInteractive", "RebaseMerge"} -> St("Rebase")
           [] r.state \in {"ApplyMailbox", "ApplyMailboxOrRebase"} -> St("Unknown")

Status_new(r) ==
    CASE r.state = "Clean" ->
           IF ~r.list_ok THEN St("Unknown")
           ELSE IF \A f \in statuses(r, TRUE, FALSE) :
                      \/ "IGNORED" \in FileStatus(f)
                      \/ FileStatus(f) \cap ChangeFlags = {}
                THEN get_branch_push_status(r)
                ELSE Dirty(get_changed_count(r))
      [] r.state = "Merge" -> St("Merge")
      [] r.state \in {"Revert", "RevertSequence"} -> St("Revert")
      [] r.state \in {"CherryPick", "CherryPickSequence"} -> St("CherryPick")
      [] r.state = "Bisect" -> St("Bisect")
      [] r.state \in {"Rebase", "RebaseInteractive", "RebaseMerge"} -> St("Rebase")
      [] r.state \in {"ApplyMailbox", "ApplyMailboxOrRebase"} -> St("Unknown")

\* Status::new while another process changes the working tree: the first
\* status listing sees r, the listing of get_changed_count sees later
Status_new_during(r, later) ==
    CASE r.state = "Clean" ->
           IF ~r.list_ok THEN St("Unknown")
           ELSE IF \A f \in statuses(r, TRUE, FALSE) :
                      \/ "IGNORED" \in FileStatus(f)
                      \/ FileStatus(f) \cap ChangeFlags = {}
                THEN get_branch_push_status(r)
                ELSE Dirty(get_changed_count(later))
      [] r.state = "Merge" -> St("Merge")
      [] r.state \in {"Revert", "RevertSequence"} -> St("Revert")
      [] r.state \in {"CherryPick", "CherryPickSequence"} -> St("CherryPick")
      [] r.state = "Bisect" -> St("Bisect")
      [] r.state \in {"Rebase", "RebaseInteractive", "RebaseMerge"} -> St("Rebase")
      [] r.state \in {"ApplyMailbox", "ApplyMailboxOrRebase"} -> St("Unknown")

----------------------------------------------------------------------------
(* gitinfo::repoinfo *)

\* RepoInfo::new that measures first and fetches afterwards
RepoInfo_new_fetch_last(r0, name, show_remote, fetch) ==
    IF fetch /\ ~fetch_origin(r0).ok THEN Err(fetch_origin(r0).err)
    ELSE LET r == r0
             abl == get_ahead_behind_and_local_status(r)
             commits == get_total_commits(r)
         IN  IF ~commits.ok THEN Err(commits.err)
             ELSE Ok([name |-> IF get_repo_name(r) = None THEN name
                               ELSE get_repo_name(r)[1],
                      branch |-> get_branch_name(r),
                      ahead |-> abl[1],
                      behind |-> abl[2],
                      commits |-> commits.val,
                      status |-> Status_new(r),
                      has_unpushed |-> abl[1] > 0,
                      remote_url |-> IF show_remote THEN get_remote_url(r) ELSE None,
                      path |-> get_repo_path(r),
                      stash_count |-> get_stash_count(r),
                      is_local_only |-> abl[3]])

\* RepoInfo::new on the repository r0; the fetch, when requested, comes first
\* and every later call sees the repository it left
RepoInfo_new(r0, name, show_remote, fetch) ==
    IF fetch /\ ~fetch_origin(r0).ok THEN Err(fetch_origin(r0).err)
    ELSE LET r == IF fetch THEN after_fetch(r0) ELSE r0
             abl == get_ahead_behind_and_local_status(r)
             commits == get_total_commits(r)
         IN  IF ~commits.ok THEN Err(commits.err)
             ELSE Ok([name |-> IF get_repo_name(r) = None THEN name
                               ELSE get_repo_name(r)[1],
                      branch |-> get_branch_name(r),
                      ahead |-> abl[1],
                      behind |-> abl[2],
                      commits |-> commits.val,
                      status |-> Status_new(r),
                      has_unpushed |-> abl[1] > 0,
                      remote_url |-> IF show_remote THEN get_remote_url(r) ELSE None,
                      path |-> get_repo_path(r),
                      stash_count |-> get_stash_count(r),
                      is_local_only |-> abl[3]])

\* the report with the fast_forwarded column
with_fast_forwarded(info, ff) ==
    [name |-> info.name, branch |-> info.branch, ahead |-> info.ahead,
     behind |-> info.behind, commits |-> info.commits, status |-> info.status,
     has_unpushed |-> info.has_unpushed, remote_url |-> info.remote_url,
     path |-> info.path, stash_count |-> info.stash_count,
     is_local_only |-> info.is_local_only, fast_forwarded |-> ff]

\* a failed fast-forward that fails the report
merge_outcome_strict(res) == res

\* what RepoInfo::new makes of the result of merge_ff: a failed fast-forward
\* is recovered and counts as no fast-forward
merge_outcome(res) == IF res.ok THEN res ELSE Ok(FALSE)

\* RepoInfo::new as find_repositories calls it, with the fast-forward option:
\* the remote is fetched when a fetch or a fast-forward is asked for, the
\* report is measured, and then the fast-forward is attempted, so the report
\* of a scan that fast-forwards holds the values of before the merge
RepoInfo_new_merge(r0, name, show_remote, fetch, merge) ==
    LET info == RepoInfo_new(r0, name, show_remote, fetch \/ merge)
        r1 == IF fetch \/ merge THEN after_fetch(r0) ELSE r0
    IN  IF ~info.ok THEN [res |-> info, repo |-> r1]
        ELSE LET m == IF merge THEN merge_ff(r1)
                      ELSE [res |-> Ok(FALSE), repo |-> r1]
                 o == merge_outcome(m.res)
             IN  [res |-> IF o.ok THEN Ok(with_fast_forwarded(info.val, o.val)) ELSE o,
                  repo |-> m.repo]

----------------------------------------------------------------------------
(* The file system under the scanned root *)

NumEntries == 2

Entries == 1..NumEntries

Digits == <<"1", "2", "3", "4", "5", "6", "7", "8", "9">>

RootName == <<"r", "o", "o", "t">>

\* the directory name of the walked entry e
EntryName(e) == <<"e", Digits[e]>>

\* the path of the walked entry e, as its sequence of components
EntryPath(e) == <<RootName, EntryName(e)>>

Checkout == <<"c", "o">>

Other == <<"n", "o", "n", "e">>

UrlOf ==
    [rm \in RemoteNames |->
        IF rm = "origin" THEN <<"h", "/", "a", ".", "g", "i", "t">>
        ELSE <<"h", "/", "b">>]

\* a repository with one branch "main" tracking origin/main: one local
\* commit is not in origin/main yet, and the remote has moved on meanwhile.
\* checkout is the commit the files of the working tree were checked out
\* from; merge_ok, no_ff, checkout_ok and set_target_ok say whether the merge
\* analysis works, whether merge.ff forbids a fast-forward and whether a
\* checkout and a reference update work
BaseRepo(path) ==
    [path |-> path, state |-> "Clean", wt |-> {}, list_ok |-> TRUE,
     count_ok |-> TRUE, head |-> "branch", branch |-> Main, tip |-> CommitB,
     remotes |-> <<"origin">>,
     tracking |-> [rm \in RemoteNames |->
                      IF rm = "origin" THEN Direct(CommitA) ELSE Absent],
     upstream |-> Some("origin"), graph_ok |-> TRUE, revwalk_ok |-> TRUE,
     fetch_ok |-> TRUE, server |-> CommitC, url |-> UrlOf, stashes |-> 0,
     stash_ok |-> TRUE, checkout |-> CommitB, merge_ok |-> TRUE,
     no_ff |-> FALSE, checkout_ok |-> TRUE, set_target_ok |-> TRUE]

SampleRepo(path, health) ==
    CASE health = "ok"          -> BaseRepo(path)
      [] health = "fetchfail"   -> [BaseRepo(path) EXCEPT !.fetch_ok = FALSE]
      [] health = "revwalkfail" -> [BaseRepo(path) EXCEPT !.revwalk_ok = FALSE]

\* a directory that may hold a checkout: whether it is a directory, whether
\* it has a .git entry, whether git2 can open it, and the repository there
NoDir == [is_dir |-> FALSE, dot_git |-> FALSE, open_ok |-> FALSE, health |-> "ok"]

PlainDir == [is_dir |-> TRUE, dot_git |-> FALSE, open_ok |-> FALSE, health |-> "ok"]

BadGit == [is_dir |-> TRUE, dot_git |-> TRUE, open_ok |-> FALSE, health |-> "ok"]

GoodGit(h) == [is_dir |-> TRUE, dot_git |-> TRUE, open_ok |-> TRUE, health |-> h]

\* the shapes a walked entry can have: itself (self) and its subdirectory
\* named Checkout (sub)
EntryKinds ==
    << [self |-> NoDir,                  sub |-> NoDir],
       [self |-> PlainDir,               sub |-> NoDir],
       [self |-> PlainDir,               sub |-> PlainDir],
       [self |-> GoodGit("ok"),          sub |-> NoDir],
       [self |-> GoodGit("fetchfail"),   sub |-> NoDir],
       [self |-> GoodGit("revwalkfail"), sub |-> NoDir],
       [self |-> BadGit,                 sub |-> NoDir],
       [self |-> PlainDir,               sub |-> GoodGit("ok")],
       [self |-> PlainDir,               sub |-> GoodGit("fetchfail")],
       [self |-> PlainDir,               sub |-> BadGit],
       [self |-> GoodGit("ok"),          sub |-> BadGit],
       [self |-> BadGit,                 sub |-> GoodGit("ok")] >>

\* what is on disk at entry e of kind k: the shape and the two repositories
DiskOf(e, k) ==
    [self |-> EntryKinds[k].self,
     sub |-> EntryKinds[k].sub,
     self_repo |-> SampleRepo(EntryPath(e), EntryKinds[k].self.health),
     sub_repo |-> SampleRepo(Append(EntryPath(e), Checkout), EntryKinds[k].sub.health)]

----------------------------------------------------------------------------
(* util: GitPathExt *)

\* Path::is_git_directory of the entry itself (which = "self") or of the
\* entry joined with the subdirectory name sd (which = "sub")
is_git_directory(d, which, sd) ==
    IF which = "self" THEN d.self.is_dir /\ d.self.dot_git
    ELSE sd = Checkout /\ d.sub.is_dir /\ d.sub.dot_git

\* Path::dir_name: the last component of the path
dir_name(path) == IF Len(path) = 0 THEN <<"u", "n", "k", "n", "o", "w", "n">>
                  ELSE path[Len(path)]

----------------------------------------------------------------------------
(* cli: Args::find_repositories *)

NoOut == [kind |-> "none"]

\* a lock that excludes nobody
write_lock_free_none(l) == TRUE

\* RwLock::write can be taken when nobody holds the lock
write_lock_free(l) == l = 0

\* the closure without its early return for an entry that is no git directory
path_buf_of_noskip(d, a) ==
    IF is_git_directory(d, "self", None) THEN Some("self")
    ELSE IF a.subdir /= None
         THEN IF is_git_directory(d, "sub", a.subdir[1]) THEN Some("sub") ELSE None
         ELSE Some("self")

\* which of the two directories of the entry the closure settles on
path_buf_of(d, a) ==
    IF is_git_directory(d, "self", None) THEN Some("self")
    ELSE IF a.subdir /= None
         THEN IF is_git_directory(d, "sub", a.subdir[1]) THEN Some("sub") ELSE None
         ELSE None

\* the closure of par_iter().for_each, up to the push it decides on: the
\* repository-root check, Repository::open and RepoInfo::new. The result is
\* the local outcome and what the entry holds on disk afterwards
closure(d, orig_path, a) ==
    LET repo_name == dir_name(orig_path)
        which == path_buf_of(d, a)
    IN  IF which = None
        THEN [out |-> NoOut, disk |-> d]
        ELSE LET path_buf == IF which[1] = "self" THEN orig_path
                             ELSE Append(orig_path, a.subdir[1])
                 dir == IF which[1] = "self" THEN d.self ELSE d.sub
                 git_repo == IF which[1] = "self" THEN d.self_repo ELSE d.sub_repo
             IN  IF dir.open_ok
                 THEN LET new == RepoInfo_new_merge(git_repo, repo_name, a.remote,
                                                    a.fetch, a.fast_forward)
                          info == new.res
                          left == new.repo
                      IN  [out |-> IF info.ok THEN [kind |-> "repo", val |-> info.val]
                                   ELSE [kind |-> "failed", val |-> repo_name],
                           disk |-> IF which[1] = "self"
                                    THEN [d EXCEPT !.self_repo = left]
                                    ELSE [d EXCEPT !.sub_repo = left]]
                 ELSE [out |-> [kind |-> "failed", val |-> dir_name(path_buf)],
                       disk |-> d]

\* one worker of the pool runs the closure on the walked entry e
Process(e) ==
    /\ pc[e] = "start"
    /\ LET c == closure(disk[e], walker[e], args)
       IN  /\ out' = [out EXCEPT ![e] = c.out]
           /\ disk' = [disk EXCEPT ![e] = c.disk]
           /\ pc' = [pc EXCEPT ![e] = IF c.out.kind = "none" THEN "done" ELSE "push"]
    /\ UNCHANGED <<args, tmp, lock_repos, lock_failed, repos, failed_repos, returned>>
    /\ UNCHANGED <<unitVars, runVars, viewVars>>

\* repos.write() / failed_repos.write()
Acquire(e) ==
    /\ pc[e] = "push"
    /\ IF out[e].kind = "repo"
       THEN /\ write_lock_free(lock_repos)
            /\ lock_repos' = e
            /\ UNCHANGED lock_failed
       ELSE /\ write_lock_free(lock_failed)
            /\ lock_failed' = e
            /\ UNCHANGED lock_repos
    /\ pc' = [pc EXCEPT ![e] = "locked"]
    /\ UNCHANGED <<args, disk, out, tmp, repos, failed_repos, returned>>
    /\ UNCHANGED <<unitVars, runVars, viewVars>>

\* Vec::push, first half: read the vector
PushRead(e) ==
    /\ pc[e] = "locked"
    /\ tmp' = [tmp EXCEPT ![e] = IF out[e].kind = "repo" THEN repos ELSE failed_repos]
    /\ pc' = [pc EXCEPT ![e] = "read"]
    /\ UNCHANGED <<args, disk, out, lock_repos, lock_failed, repos, failed_repos, returned>>
    /\ UNCHANGED <<unitVars, runVars, viewVars>>

\* a push whose write guard is never dropped
PushWrite_keep_guard(e) ==
    /\ pc[e] = "read"
    /\ IF out[e].kind = "repo"
       THEN /\ repos' = Append(tmp[e], out[e].val)
            /\ UNCHANGED <<failed_repos, lock_failed, lock_repos>>
       ELSE /\ failed_repos' = Append(tmp[e], out[e].val)
            /\ UNCHANGED <<repos, lock_repos, lock_failed>>
    /\ pc' = [pc EXCEPT ![e] = "done"]
    /\ UNCHANGED <<args, disk, out, tmp, returned>>
    /\ UNCHANGED <<unitVars, runVars, viewVars>>

\* Vec::push, second half: store the vector with the new element; the write
\* guard is dropped at the end of the statement
PushWrite(e) ==
    /\ pc[e] = "read"
    /\ IF out[e].kind = "repo"
       THEN /\ repos' = Append(tmp[e], out[e].val)
            /\ lock_repos' = 0
            /\ UNCHANGED <<failed_repos, lock_failed>>
       ELSE /\ failed_repos' = Append(tmp[e], out[e].val)
            /\ lock_failed' = 0
            /\ UNCHANGED <<repos, lock_repos>>
    /\ pc' = [pc EXCEPT ![e] = "done"]
    /\ UNCHANGED <<args, disk, out, tmp, returned>>
    /\ UNCHANGED <<unitVars, runVars, viewVars>>

\* for_each has joined every worker
all_workers_finished == \A e \in Entries : pc[e] = "done"

\* (repos.read().to_vec(), failed_repos.read().to_vec())
Return ==
    /\ all_workers_finished
    /\ returned = None
    /\ lock_repos = 0 /\ lock_failed = 0
    /\ returned' = Some([repos |-> repos, failed |-> failed_repos])
    /\ UNCHANGED <<args, disk, pc, out, tmp, lock_repos, lock_failed, repos, failed_repos>>
    /\ UNCHANGED <<unitVars, runVars, viewVars>>

NoRepo == [path |-> <<>>]

\* before InteractiveMode::new: the terminal is in its normal state
NoUi ==
    [pc |-> "start", mode |-> None, result |-> None, event |-> None, pending |-> None,
     terminal |-> [alternate |-> FALSE, raw |-> FALSE, cursor |-> TRUE]]

NoCall == [fn |-> "none"]

\* the scans of this specification are those without the fast-forward option
ArgsSet ==
    [subdir : {None, Some(Checkout), Some(Other)}, fetch : BOOLEAN,
     remote : BOOLEAN, fast_forward : {FALSE}]

\* the kinds of the entries, up to the order of the entries
KindChoices ==
    {k \in [Entries -> 1..Len(EntryKinds)] :
        \A e \in Entries : e + 1 \in Entries => k[e] <= k[e + 1]}

Init ==
    /\ args \in ArgsSet
    /\ \E k \in KindChoices : disk = [e \in Entries |-> DiskOf(e, k[e])]
    /\ pc = [e \in Entries |-> "start"]
    /\ out = [e \in Entries |-> NoOut]
    /\ tmp = [e \in Entries |-> <<>>]
    /\ lock_repos = 0
    /\ lock_failed = 0
    /\ repos = <<>>
    /\ failed_repos = <<>>
    /\ returned = None
    /\ repo = NoRepo
    /\ call = NoCall
    /\ walker = [e \in Entries |-> EntryPath(e)]
    /\ scans = <<>>
    /\ main_repos = <<>>
    /\ stdout = None
    /\ ui = NoUi

Next ==
    \/ \E e \in Entries : Process(e)
    \/ \E e \in Entries : Acquire(e)
    \/ \E e \in Entries : PushRead(e)
    \/ \E e \in Entries : PushWrite(e)
    \/ Return

Spec == Init /\ [][Next]_vars

\* the scan when the pool keeps running every worker that can push, and the
\* calling thread returns once for_each has joined; nothing is assumed about
\* how long the closure of a worker takes. The remote URL column plays no part
\* in the locking and is left out
PoolInit == Init /\ ~args.remote

SpecPool ==
    /\ PoolInit /\ [][Next]_vars
    /\ \A e \in Entries :
          WF_vars(Acquire(e)) /\ WF_vars(PushRead(e)) /\ WF_vars(PushWrite(e))
    /\ WF_vars(Return)

----------------------------------------------------------------------------
(* cli: the directory walk of Args::find_repositories *)

\* a directory tree under the scanned root: node 0 is the root and
\* TreeParent[n] is the directory that holds node n. Nodes 1, 3 and 5 sit one,
\* two and three levels below the root; node 6 is named like the subdir option
TreeParent == <<0, 0, 2, 2, 4, 2>>

TreeNames == << <<"a">>, <<"l">>, <<"b">>, <<"m">>, <<"c">>, Checkout >>

TreeNodes == 0..Len(TreeParent)

RECURSIVE children_from(_, _)
\* the nodes from m on that sit in directory n, in the order of the walk
children_from(n, m) ==
    IF m > Len(TreeParent) THEN <<>>
    ELSE (IF TreeParent[m] = n THEN <<m>> ELSE <<>>) \o children_from(n, m + 1)

Children(n) == children_from(n, 1)

RECURSIVE Level(_)
\* DirEntry::depth
Level(n) == IF n = 0 THEN 0 ELSE 1 + Level(TreeParent[n])

RECURSIVE TreePath(_)
TreePath(n) == IF n = 0 THEN <<RootName>>
               ELSE Append(TreePath(TreeParent[n]), TreeNames[n])

NodeAt(path) == CHOOSE n \in TreeNodes : TreePath(n) = path

\* the entries of n named Checkout: one at most
CheckoutOf(n) ==
    {m \in 1..Len(TreeParent) : TreeParent[m] = n /\ TreeNames[m] = Checkout}

MaxDepthArg == 4

\* values of --depth
Depths == -2..MaxDepthArg

\* the walker that promotes no depth
max_depth_of_asis(depth) ==
    IF depth /= -1 /\ depth >= 0 THEN Some(depth) ELSE None

\* the max_depth the walker is given (None: the walker is left unbounded)
max_depth_of(depth) ==
    IF depth /= -1 /\ depth >= 0
    THEN Some(IF depth > 0 THEN depth ELSE 1)
    ELSE None

RECURSIVE walk_from(_, _, _)
RECURSIVE walk_each(_, _, _)
\* WalkDir from node n on: the entry itself, then what is in it unless the
\* entry is at max_depth; an entry that is missing, or a directory that cannot
\* be read, gives an Err item
walk_from(dsk, n, max) ==
    IF ~dsk[n].exists THEN <<Err(TreePath(n))>>
    ELSE <<Ok(TreePath(n))>> \o
         (IF dsk[n].self.is_dir /\ (max = None \/ Level(n) < max[1])
          THEN IF dsk[n].readable THEN walk_each(dsk, Children(n), max)
               ELSE <<Err(TreePath(n))>>
          ELSE <<>>)

walk_each(dsk, ns, max) ==
    IF ns = <<>> THEN <<>>
    ELSE walk_from(dsk, Head(ns), max) \o walk_each(dsk, Tail(ns), max)

\* WalkDir::new(&self.dir).min_depth(0).follow_links(false) [.max_depth(..)]
WalkDir(dsk, depth) == walk_from(dsk, 0, max_depth_of(depth))

RECURSIVE filter_map_ok(_)
\* filter_map(Result::ok).collect()
filter_map_ok(items) ==
    IF items = <<>> THEN <<>>
    ELSE (IF Head(items).ok THEN <<Head(items).val>> ELSE <<>>)
         \o filter_map_ok(Tail(items))

\* the push of a worker whose closure gave c for the entry at node n
push_of(acc, n, c) ==
    [repos |-> IF c.out.kind = "repo"
               THEN Append(acc.repos, c.out.val) ELSE acc.repos,
     failed |-> IF c.out.kind = "failed"
                THEN Append(acc.failed, c.out.val) ELSE acc.failed,
     disk |-> [acc.disk EXCEPT ![n] = c.disk]]

\* one worker: the closure on a walked entry and its push
worker(acc, orig_path, a) ==
    push_of(acc, NodeAt(orig_path),
            closure(acc.disk[NodeAt(orig_path)], orig_path, a))

\* walker.par_iter().for_each(closure) followed by the two reads, with the
\* workers taken in the order of the walk
for_each(w, dsk, a) ==
    LET upto[i \in 0..Len(w)] ==
            IF i = 0 THEN [repos |-> <<>>, failed |-> <<>>, disk |-> dsk]
            ELSE worker(upto[i - 1], w[i], a)
    IN  upto[Len(w)]

\* the first statement of find_repositories: the walker is collected
Walk ==
    /\ call = NoCall
    /\ returned = None
    /\ LET items == WalkDir(disk, args.depth)
       IN  /\ call' = [fn |-> "WalkDir", res |-> items]
           /\ walker' = filter_map_ok(items)
    /\ UNCHANGED <<args, disk, pc, out, tmp, lock_repos, lock_failed, repos,
                   failed_repos, returned, repo, scans, viewVars>>

\* the rest of find_repositories: every walked entry is processed and the
\* two vectors are returned
ScanWalked ==
    /\ call /= NoCall
    /\ returned = None
    /\ \E r \in {for_each(walker, disk, args)} :
           /\ repos' = r.repos
           /\ failed_repos' = r.failed
           /\ disk' = r.disk
           /\ returned' = Some([repos |-> r.repos, failed |-> r.failed])
    /\ UNCHANGED <<args, pc, out, tmp, lock_repos, lock_failed, repo, call,
                   walker, scans, viewVars>>

\* what can be wrong with the tree: the root is missing, or the directory of
\* node 4 cannot be read
Faults == {"none", "root", "below"}

TreeKindChoices ==
    {k \in [TreeNodes -> {PlainDir, GoodGit("ok"), BadGit}] :
        \A n \in TreeNodes : Children(n) /= <<>> => k[n] /= BadGit}

\* what is on disk at node n when the nodes have the kinds k
TreeDisk(k, fault) ==
    [n \in TreeNodes |->
        [self |-> k[n],
         sub |-> IF CheckoutOf(n) = {} THEN NoDir
                 ELSE k[CHOOSE m \in CheckoutOf(n) : TRUE],
         self_repo |-> SampleRepo(TreePath(n), "ok"),
         sub_repo |-> SampleRepo(Append(TreePath(n), Checkout), "ok"),
         exists |-> fault /= "root",
         readable |-> ~(fault = "below" /\ n = 4)]]

WalkInit ==
    /\ args \in [subdir : {None, Some(Checkout)}, fetch : {FALSE},
                 remote : {FALSE}, fast_forward : {FALSE}, depth : Depths]
    /\ \E k \in TreeKindChoices, fault \in Faults :
          /\ fault = "below" => k[4] = PlainDir
          /\ disk = TreeDisk(k, fault)
    /\ pc = <<>>
    /\ out = <<>>
    /\ tmp = <<>>
    /\ lock_repos = 0
    /\ lock_failed = 0
    /\ repos = <<>>
    /\ failed_repos = <<>>
    /\ returned = None
    /\ repo = NoRepo
    /\ call = NoCall
    /\ walker = <<>>
    /\ scans = <<>>
    /\ main_repos = <<>>
    /\ stdout = None
    /\ ui = NoUi

WalkNext ==
    \/ Walk
    \/ ScanWalked

SpecWalk == WalkInit /\ [][WalkNext]_vars

----------------------------------------------------------------------------
(* The gitinfo functions on one repository *)

UnitPath == <<RootName, <<"d">>>>

RemoteLists ==
    {<<>>, <<"origin">>, <<"upstream">>, <<"upstream", "origin">>, <<"origin", "upstream">>}

Configured(rs) == {rs[i] : i \in 1..Len(rs)}

\* remotes, remote-tracking references and upstream configuration; only a
\* configured remote has references and can be an upstream
RefConfigs ==
    {c \in [remotes : RemoteLists,
            tracking : [RemoteNames -> {Absent, Symbolic, Direct(CommitA),
                                        Direct(CommitB), Direct(CommitC)}],
            upstream : {None} \cup {Some(rm) : rm \in RemoteNames}] :
        \A rm \in RemoteNames \ Configured(c.remotes) :
            c.tracking[rm] = Absent /\ c.upstream /= Some(rm)}

WithRefs(r, c) ==
    [r EXCEPT !.remotes = c.remotes, !.tracking = c.tracking, !.upstream = c.upstream]

\* repositories that differ in HEAD, tip, references and failing lookups
RefRepos ==
    {[WithRefs(BaseRepo(UnitPath), c) EXCEPT
          !.head = h, !.tip = t, !.graph_ok = g, !.revwalk_ok = w,
          !.fetch_ok = f, !.server = sv] :
        c \in RefConfigs, h \in HeadKinds, t \in {CommitA, CommitB, CommitD},
        g \in BOOLEAN, w \in BOOLEAN, f \in BOOLEAN, sv \in {CommitB, CommitC}}

NoRemote ==
    [remotes |-> <<>>, tracking |-> [rm \in RemoteNames |-> Absent], upstream |-> None]

Published ==
    [remotes |-> <<"origin">>,
     tracking |-> [rm \in RemoteNames |-> IF rm = "origin" THEN Direct(CommitB) ELSE Absent],
     upstream |-> Some("origin")]

Behind ==
    [remotes |-> <<"origin">>,
     tracking |-> [rm \in RemoteNames |-> IF rm = "origin" THEN Direct(CommitA) ELSE Absent],
     upstream |-> Some("origin")]

\* repositories that differ in the operation in progress, the working tree
\* and the failing status listings
TreeRepos ==
    {[WithRefs(BaseRepo(UnitPath), c) EXCEPT
          !.state = s, !.wt = w, !.list_ok = l, !.count_ok = k, !.head = h] :
        c \in {NoRemote, Published, Behind}, s \in RepositoryState,
        w \in SUBSET Files, l \in BOOLEAN, k \in BOOLEAN,
        h \in {"branch", "detached"}}

MaxStashes == 2

\* repositories that differ in their stash and in whether it can be listed
StashRepos ==
    {[BaseRepo(UnitPath) EXCEPT !.stashes = n, !.stash_ok = ok] :
        n \in 0..MaxStashes, ok \in BOOLEAN}

\* URLs a remote may have: with and without the ".git" suffix, with a
\* trailing "/", with the suffix twice, without any "/", and empty
Urls ==
    {<<"h", "/", "a">>,
     <<"h", "/", "a">> \o DotGit,
     <<"h", "/", "a", "/">>,
     <<"h", "/", "a">> \o DotGit \o <<"/">>,
     <<"h", "/", "a">> \o DotGit \o DotGit,
     <<"h", "/">> \o DotGit,
     <<"a">>,
     <<>>}

\* repositories that differ in their remotes and in the URLs of the remotes
NameRepos ==
    {[BaseRepo(UnitPath) EXCEPT !.remotes = rs, !.url = [rm \in RemoteNames |-> u[rm]]] :
        rs \in RemoteLists, u \in [RemoteNames -> Urls]}

BranchNames == {Main, <<"f", "/", "x">>}

\* repositories that differ in what HEAD is and in the name of the branch
BranchRepos ==
    {[BaseRepo(UnitPath) EXCEPT !.head = h, !.branch = b] :
        h \in HeadKinds, b \in BranchNames}

UnitName == <<"d">>

CallStatusNew ==
    /\ call = NoCall
    /\ call' = [fn |-> "Status::new", on |-> repo, res |-> Status_new(repo)]
    /\ UNCHANGED repo
    /\ UNCHANGED <<scanVars, runVars, viewVars>>

\* Status::new on a working tree whose changes another process discards
\* while the call runs
CallStatusNewDuring ==
    /\ call = NoCall
    /\ repo.wt /= {}
    /\ call' = [fn |-> "Status::new during a change", on |-> repo,
                res |-> Status_new_during(repo, [repo EXCEPT !.wt = {}])]
    /\ repo' = [repo EXCEPT !.wt = {}]
    /\ UNCHANGED <<scanVars, runVars, viewVars>>

CallAheadBehind ==
    /\ call = NoCall
    /\ call' = [fn |-> "get_ahead_behind_and_local_status", on |-> repo,
                res |-> get_ahead_behind_and_local_status(repo)]
    /\ UNCHANGED repo
    /\ UNCHANGED <<scanVars, runVars, viewVars>>

CallTotalCommits ==
    /\ call = NoCall
    /\ call' = [fn |-> "get_total_commits", on |-> repo, res |-> get_total_commits(repo)]
    /\ UNCHANGED repo
    /\ UNCHANGED <<scanVars, runVars, viewVars>>

CallRepoInfoNew ==
    /\ call = NoCall
    /\ \E fetch \in BOOLEAN, show_remote \in BOOLEAN :
          /\ call' = [fn |-> "RepoInfo::new", on |-> repo, fetch |-> fetch,
                      res |-> RepoInfo_new(repo, UnitName, show_remote, fetch)]
          /\ repo' = IF fetch THEN after_fetch(repo) ELSE repo
    /\ UNCHANGED <<scanVars, runVars, viewVars>>

CallStashCount ==
    /\ call = NoCall
    /\ call' = [fn |-> "get_stash_count", on |-> repo, res |-> get_stash_count(repo)]
    /\ UNCHANGED repo
    /\ UNCHANGED <<scanVars, runVars, viewVars>>

CallBranchName ==
    /\ call = NoCall
    /\ call' = [fn |-> "get_branch_name", on |-> repo, res |-> get_branch_name(repo)]
    /\ UNCHANGED repo
    /\ UNCHANGED <<scanVars, runVars, viewVars>>

CallRemoteName ==
    /\ call = NoCall
    /\ call' = [fn |-> "get_remote_name", on |-> repo, res |-> get_remote_name(repo)]
    /\ UNCHANGED repo
    /\ UNCHANGED <<scanVars, runVars, viewVars>>

CallRemoteUrl ==
    /\ call = NoCall
    /\ call' = [fn |-> "get_remote_url", on |-> repo, res |-> get_remote_url(repo)]
    /\ UNCHANGED repo
    /\ UNCHANGED <<scanVars, runVars, viewVars>>

CallRepoName ==
    /\ call = NoCall
    /\ call' = [fn |-> "get_repo_name", on |-> repo, res |-> get_repo_name(repo)]
    /\ UNCHANGED repo
    /\ UNCHANGED <<scanVars, runVars, viewVars>>

CallFetchOrigin ==
    /\ call = NoCall
    /\ call' = [fn |-> "fetch_origin", on |-> repo, res |-> fetch_origin(repo)]
    /\ repo' = after_fetch(repo)
    /\ UNCHANGED <<scanVars, runVars, viewVars>>

UnitInit ==
    /\ repo \in RefRepos \cup TreeRepos \cup StashRepos \cup NameRepos \cup BranchRepos
    /\ call = NoCall
    /\ args = [subdir |-> None, fetch |-> FALSE, remote |-> FALSE,
               fast_forward |-> FALSE]
    /\ disk = <<>>
    /\ pc = <<>>
    /\ out = <<>>
    /\ tmp = <<>>
    /\ lock_repos = 0
    /\ lock_failed = 0
    /\ repos = <<>>
    /\ failed_repos = <<>>
    /\ returned = None
    /\ walker = <<>>
    /\ scans = <<>>
    /\ main_repos = <<>>
    /\ stdout = None
    /\ ui = NoUi

UnitNext ==
    \/ CallStatusNew
    \/ CallStatusNewDuring
    \/ CallAheadBehind
    \/ CallTotalCommits
    \/ CallRepoInfoNew
    \/ CallStashCount
    \/ CallBranchName
    \/ CallRemoteName
    \/ CallRemoteUrl
    \/ CallRepoName
    \/ CallFetchOrigin

SpecUnit == UnitInit /\ [][UnitNext]_vars

----------------------------------------------------------------------------
(* Consecutive scans of one clone, with and without fast-forward *)

MaxScans == 3

ClonePath == <<RootName, <<"k">>>>

\* the commit the remote gains between two scans
NewCommit == Cardinality(UNION Commits) + 1

\* clones that differ in HEAD, the branch tip, the remote-tracking reference,
\* the upstream configuration, the tip of the remote and in what fails
MergeRepos ==
    {[BaseRepo(ClonePath) EXCEPT
          !.head = h, !.tip = t, !.checkout = t,
          !.tracking = [rm \in RemoteNames |-> IF rm = "origin" THEN tr ELSE Absent],
          !.upstream = u, !.server = sv, !.fetch_ok = f, !.merge_ok = m,
          !.no_ff = n, !.checkout_ok = c, !.set_target_ok = st] :
        h \in {"branch", "detached", "unborn"}, t \in {CommitA, CommitB, CommitD},
        tr \in {Absent, Direct(CommitA), Direct(CommitB)},
        u \in {None, Some("origin")}, sv \in {CommitA, CommitC},
        f \in BOOLEAN, m \in BOOLEAN, n \in BOOLEAN, c \in BOOLEAN, st \in BOOLEAN}

\* the scanned directory holds the clone and nothing else
CloneDisk(r) ==
    [self |-> GoodGit("ok"), sub |-> NoDir, self_repo |-> r, sub_repo |-> r]

\* one call of find_repositories on the directory of the clone
ScanClone ==
    /\ call = NoCall
    /\ Len(scans) < MaxScans
    /\ LET c == closure(CloneDisk(repo), ClonePath, args)
       IN  /\ scans' = Append(scans,
                  [on |-> repo,
                   repos |-> IF c.out.kind = "repo" THEN <<c.out.val>> ELSE <<>>,
                   failed |-> IF c.out.kind = "failed" THEN <<c.out.val>> ELSE <<>>])
           /\ repo' = c.disk.self_repo
    /\ UNCHANGED <<scanVars, call, walker, viewVars>>

\* somebody pushes a commit to the remote
RemoteCommit ==
    /\ call = NoCall
    /\ Len(scans) < MaxScans
    /\ NewCommit \notin repo.server
    /\ repo' = [repo EXCEPT !.server = @ \cup {NewCommit}]
    /\ UNCHANGED <<scanVars, call, runVars, viewVars>>

CallMergeFF ==
    /\ call = NoCall
    /\ scans = <<>>
    /\ call' = [fn |-> "merge_ff", on |-> repo, res |-> merge_ff(repo).res]
    /\ repo' = merge_ff(repo).repo
    /\ UNCHANGED <<scanVars, runVars, viewVars>>

MergeInit ==
    /\ repo \in MergeRepos
    /\ call = NoCall
    /\ args \in [subdir : {None}, fetch : BOOLEAN, remote : {FALSE},
                 fast_forward : BOOLEAN]
    /\ disk = <<>>
    /\ pc = <<>>
    /\ out = <<>>
    /\ tmp = <<>>
    /\ lock_repos = 0
    /\ lock_failed = 0
    /\ repos = <<>>
    /\ failed_repos = <<>>
    /\ returned = None
    /\ walker = <<>>
    /\ scans = <<>>
    /\ main_repos = <<>>
    /\ stdout = None
    /\ ui = NoUi

MergeNext ==
    \/ ScanClone
    \/ RemoteCommit
    \/ CallMergeFF

SpecMerge == MergeInit /\ [][MergeNext]_vars

----------------------------------------------------------------------------
(* Presentation: the sorted table and the list of the interactive mode *)

\* the characters report names are made of, in the order of their byte values
CharOrder == <<"A", "B", "a", "b">>

Rank(c) == CHOOSE i \in 1..Len(CharOrder) : CharOrder[i] = c

\* char::to_ascii_lowercase
Lower(c) ==
    CASE c = "A" -> "a"
      [] c = "B" -> "b"
      [] c = "J" -> "j"
      [] c = "T" -> "t"
      [] OTHER   -> c

\* str::to_ascii_lowercase
to_ascii_lowercase(s) == [i \in 1..Len(s) |-> Lower(s[i])]

RECURSIVE str_le(_, _)
\* the order of String: byte by byte, a prefix first
str_le(s, t) ==
    IF s = <<>> THEN TRUE
    ELSE IF t = <<>> THEN FALSE
    ELSE IF Head(s) = Head(t) THEN str_le(Tail(s), Tail(t))
    ELSE Rank(Head(s)) < Rank(Head(t))

\* the key that compares names as they are written
sort_key_exact(r) == r.name

sort_key(r) == to_ascii_lowercase(r.name)

RECURSIVE insert_sorted(_, _)
\* x goes behind every element whose key is not greater: the sort is stable
insert_sorted(sorted, x) ==
    IF sorted = <<>> THEN <<x>>
    ELSE IF str_le(sort_key(sorted[Len(sorted)]), sort_key(x)) THEN Append(sorted, x)
    ELSE Append(insert_sorted(SubSeq(sorted, 1, Len(sorted) - 1), x), sorted[Len(sorted)])

RECURSIVE sort_by_key(_)
sort_by_key(v) ==
    IF v = <<>> THEN <<>>
    ELSE insert_sorted(sort_by_key(SubSeq(v, 1, Len(v) - 1)), v[Len(v)])

RECURSIVE filter_non_clean(_)
\* .filter(|r| r.status != Status::Clean)
filter_non_clean(v) ==
    IF v = <<>> THEN <<>>
    ELSE IF v[Len(v)].status /= St("Clean")
    THEN Append(filter_non_clean(SubSeq(v, 1, Len(v) - 1)), v[Len(v)])
    ELSE filter_non_clean(SubSeq(v, 1, Len(v) - 1))

FormatTable == <<"t", "a", "b", "l", "e">>

FormatJson == <<"j", "s", "o", "n">>

FormatHtml == <<"h", "t", "m", "l">>

\* the match of OutputFormat::from_str on the lowercased text
match_format(l) ==
    IF l = FormatTable THEN Ok("Table")
    ELSE IF l = FormatJson THEN Ok("Json")
    ELSE IF l = FormatHtml THEN Ok("Html")
    ELSE Err("Unsupported output format")

from_str(s) == match_format(to_ascii_lowercase(s))

supports_file_output(f) == f \in {"Json", "Html"}

\* what a call of repositories_table leaves: its result, the caller's slice,
\* the rows printed and the rows written to the file
Presented(res, v, printed, file) ==
    [res |-> res, repos |-> v, printed |-> printed, file |-> file]

\* the match on the output format, on the rows to show
emit(fmt, v, rows, a, write_ok) ==
    IF fmt = "Table"
    THEN IF a.output_file /= None
         THEN Presented(Err("Table format cannot be written to file"), v, None, None)
         ELSE Presented(Ok(<<>>), v, Some(rows), None)
    ELSE IF a.output_file /= None
    THEN IF write_ok THEN Presented(Ok(<<>>), v, None, Some(rows))
         ELSE Presented(Err("write_to_file"), v, None, None)
    ELSE Presented(Ok(<<>>), v, Some(rows), None)

\* the sort of the slice and the filter of the rows
sort_and_emit(fmt, sorted, a, write_ok) ==
    emit(fmt, sorted, IF a.non_clean THEN filter_non_clean(sorted) ELSE sorted, a, write_ok)

repositories_table(v, a, write_ok) ==
    IF v = <<>> THEN Presented(Ok(<<>>), v, None, None)
    ELSE IF ~from_str(a.output).ok THEN Presented(from_str(a.output), v, None, None)
    ELSE IF a.output_file /= None /\ ~supports_file_output(from_str(a.output).val)
    THEN Presented(Err("File output is only supported for json and html formats"),
                   v, None, None)
    ELSE sort_and_emit(from_str(a.output).val, sort_by_key(v), a, write_ok)

RepositoryList == <<"RepositoryList">>

RepositoryActions(r, a) == <<"RepositoryActions", r, a>>

CommandRunning(r, name) == <<"CommandRunning", r, name>>

CommandOutput(r, name, output) == <<"CommandOutput", r, name, output>>

\* GitAction::all()
GitAction_all == <<"Status", "Push", "Fetch", "Pull", "Back">>

\* the fields of Self that InteractiveMode::new fills, on the filtered list
new_mode(v, filtered) ==
    [repos |-> filtered,
     table_state |-> IF v /= <<>> THEN Some(0) ELSE None,
     action_list_state |-> Some(0),
     current_view |-> RepositoryList]

\* the steps of InteractiveMode::new that can fail
NewFaults == {"none", "EnterAlternateScreen", "enable_raw_mode", "Terminal::new"}

\* InteractiveMode::new on the reports v: the terminal is switched first,
\* then the list is sorted and filtered
InteractiveMode_new(v, a, fault) ==
    IF fault = "EnterAlternateScreen"
    THEN [NoUi EXCEPT !.pc = "failed", !.result = Some(Err(fault))]
    ELSE IF fault = "enable_raw_mode"
    THEN [NoUi EXCEPT !.pc = "failed", !.result = Some(Err(fault)),
                      !.terminal.alternate = TRUE]
    ELSE IF fault = "Terminal::new"
    THEN [NoUi EXCEPT !.pc = "failed", !.result = Some(Err(fault)),
                      !.terminal.alternate = TRUE, !.terminal.raw = TRUE]
    ELSE [NoUi EXCEPT !.pc = "new",
                      !.terminal.alternate = TRUE, !.terminal.raw = TRUE,
                      !.mode = Some(new_mode(v, IF a.non_clean
                                                THEN filter_non_clean(sort_by_key(v))
                                                ELSE sort_by_key(v)))]

\* main's call of printer::repositories_table on its reports
CallRepositoriesTable ==
    /\ stdout = None
    /\ \E write_ok \in BOOLEAN :
          \E t \in {repositories_table(main_repos, args, write_ok)} :
             /\ stdout' = Some([res |-> t.res, printed |-> t.printed, file |-> t.file])
             /\ main_repos' = t.repos
    /\ UNCHANGED ui
    /\ UNCHANGED <<scanVars, unitVars, runVars>>

New ==
    /\ ui.pc = "start"
    /\ \E fault \in NewFaults : ui' = InteractiveMode_new(main_repos, args, fault)
    /\ UNCHANGED <<main_repos, stdout>>
    /\ UNCHANGED <<scanVars, unitVars, runVars>>

MaxRepos == 3

Names == {<<"a">>, <<"A">>, <<"B">>, <<"a", "b">>}

\* a report, as far as its presentation goes; the path tells the reports of
\* one scan apart
Report(name, status, path) == [name |-> name, status |-> status, path |-> path]

\* the lists of reports a scan can return: every order of names, with names
\* that differ in case only, clean or not
ReportLists ==
    UNION {{[i \in 1..n |-> Report(c[i][1], c[i][2], i)] :
               c \in [1..n -> Names \X {St("Clean"), Dirty(1)}]} : n \in 0..MaxRepos}

OutputArgs == {FormatTable, <<"J", "s", "o", "n">>, FormatHtml, <<"c", "s", "v">>}

PresentArgs ==
    [non_clean : BOOLEAN, output : OutputArgs, output_file : {None, Some(<<"f">>)}]

TableInit ==
    /\ main_repos \in ReportLists
    /\ args \in PresentArgs
    /\ stdout = None
    /\ ui = NoUi
    /\ disk = <<>>
    /\ pc = <<>>
    /\ out = <<>>
    /\ tmp = <<>>
    /\ lock_repos = 0
    /\ lock_failed = 0
    /\ repos = <<>>
    /\ failed_repos = <<>>
    /\ returned = None
    /\ repo = NoRepo
    /\ call = NoCall
    /\ walker = <<>>
    /\ scans = <<>>

TableNext ==
    \/ CallRepositoriesTable
    \/ New

SpecTable == TableInit /\ [][TableNext]_vars

----------------------------------------------------------------------------
(* The interactive mode: run(), the loop and its key handlers *)

\* KeyCode: Char('q') is "q", every other character is "Char", and "Left"
\* stands for the keys no handler has a case for
KeyCodes == {"Up", "Down", "Enter", "Esc", "Backspace", "q", "Char", "Left"}

\* what event::read() gives: an error, an event that is no key event, a key
\* release, or a key press
Events ==
    {[kind |-> "Error", code |-> "none"], [kind |-> "Resize", code |-> "none"],
     [kind |-> "Release", code |-> "q"]}
    \cup {[kind |-> "Press", code |-> k] : k \in KeyCodes}

\* what a key handler leaves: the fields of self, whether the loop breaks,
\* and the git action whose execution the handler has started
Handled(m, quit, run) == [mode |-> m, quit |-> quit, run |-> run]

\* the list handler that moves down without looking at the length of the list
handle_repository_list_input_unbounded(m, key) ==
    CASE key = "Up" ->
           Handled(IF m.table_state /= None /\ m.table_state[1] > 0
                   THEN [m EXCEPT !.table_state = Some(m.table_state[1] - 1)]
                   ELSE m, FALSE, None)
      [] key = "Down" ->
           Handled(IF m.table_state /= None
                   THEN IF TRUE
                        THEN [m EXCEPT !.table_state = Some(m.table_state[1] + 1)]
                        ELSE m
                   ELSE IF m.repos /= <<>> THEN [m EXCEPT !.table_state = Some(0)]
                   ELSE m, FALSE, None)
      [] key = "Enter" ->
           Handled(IF m.table_state /= None
                   THEN [m EXCEPT !.current_view = RepositoryActions(m.table_state[1], 0),
                                  !.action_list_state = Some(0)]
                   ELSE m, FALSE, None)
      [] key \in {"q", "Esc"} -> Handled(m, TRUE, None)
      [] OTHER -> Handled(m, FALSE, None)

handle_repository_list_input(m, key) ==
    CASE key = "Up" ->
           Handled(IF m.table_state /= None /\ m.table_state[1] > 0
                   THEN [m EXCEPT !.table_state = Some(m.table_state[1] - 1)]
                   ELSE m, FALSE, None)
      [] key = "Down" ->
           Handled(IF m.table_state /= None
                   THEN IF m.table_state[1] < Len(m.repos) - 1
                        THEN [m EXCEPT !.table_state = Some(m.table_state[1] + 1)]
                        ELSE m
                   ELSE IF m.repos /= <<>> THEN [m EXCEPT !.table_state = Some(0)]
                   ELSE m, FALSE, None)
      [] key = "Enter" ->
           Handled(IF m.table_state /= None
                   THEN [m EXCEPT !.current_view = RepositoryActions(m.table_state[1], 0),
                                  !.action_list_state = Some(0)]
                   ELSE m, FALSE, None)
      [] key \in {"q", "Esc"} -> Handled(m, TRUE, None)
      [] OTHER -> Handled(m, FALSE, None)

\* the name of the command a git action runs
CommandName(action) ==
    CASE action = "Status" -> "Git Status"
      [] action = "Push"   -> "Git Push"
      [] action = "Fetch"  -> "Git Fetch"
      [] action = "Pull"   -> "Git Pull"

\* Enter in the actions view: Back returns to the list, a git action shows
\* the loading view and goes on to the redraw and the command
enter_action(m, repo_index, action) ==
    IF action = "Back" THEN Handled([m EXCEPT !.current_view = RepositoryList], FALSE, None)
    ELSE Handled([m EXCEPT !.current_view = CommandRunning(repo_index, CommandName(action))],
                 FALSE, Some(action))

handle_repository_actions_input(m, key, repo_index) ==
    CASE key = "Up" ->
           Handled(IF m.action_list_state /= None /\ m.action_list_state[1] > 0
                   THEN [m EXCEPT !.action_list_state = Some(m.action_list_state[1] - 1),
                                  !.current_view =
                                      RepositoryActions(repo_index, m.action_list_state[1] - 1)]
                   ELSE m, FALSE, None)
      [] key = "Down" ->
           Handled(IF m.action_list_state /= None
                   THEN IF m.action_list_state[1] < Len(GitAction_all) - 1
                        THEN [m EXCEPT !.action_list_state = Some(m.action_list_state[1] + 1),
                                       !.current_view =
                                           RepositoryActions(repo_index, m.action_list_state[1] + 1)]
                        ELSE m
                   ELSE IF GitAction_all /= <<>>
                   THEN [m EXCEPT !.action_list_state = Some(0),
                                  !.current_view = RepositoryActions(repo_index, 0)]
                   ELSE m, FALSE, None)
      [] key = "Enter" ->
           IF m.action_list_state /= None /\ m.action_list_state[1] < Len(GitAction_all)
           THEN enter_action(m, repo_index, GitAction_all[m.action_list_state[1] + 1])
           ELSE Handled(m, FALSE, None)
      [] key \in {"Esc", "Backspace"} ->
           Handled([m EXCEPT !.current_view = RepositoryList], FALSE, None)
      [] key = "q" -> Handled(m, TRUE, None)
      [] OTHER -> Handled(m, FALSE, None)

handle_command_running_input(key) == key = "q"

\* the output handler that returns to the list of repositories
handle_command_output_input_to_list(m, key) ==
    CASE key \in {"Esc", "Backspace", "Enter"} ->
           Handled(IF m.current_view[1] = "CommandOutput"
                   THEN [m EXCEPT !.current_view = RepositoryList]
                   ELSE m, FALSE, None)
      [] key = "q" -> Handled(m, TRUE, None)
      [] OTHER -> Handled(m, FALSE, None)

handle_command_output_input(m, key) ==
    CASE key \in {"Esc", "Backspace", "Enter"} ->
           Handled(IF m.current_view[1] = "CommandOutput"
                   THEN [m EXCEPT !.current_view = RepositoryActions(m.current_view[2],
                                                      IF m.action_list_state = None THEN 0
                                                      ELSE m.action_list_state[1])]
                   ELSE m, FALSE, None)
      [] key = "q" -> Handled(m, TRUE, None)
      [] OTHER -> Handled(m, FALSE, None)

\* the match on the current view in interactive_loop
dispatch(m, key) ==
    CASE m.current_view[1] = "RepositoryList" -> handle_repository_list_input(m, key)
      [] m.current_view[1] = "RepositoryActions" ->
           handle_repository_actions_input(m, key, m.current_view[2])
      [] m.current_view[1] = "CommandRunning" ->
           Handled(m, handle_command_running_input(key), None)
      [] m.current_view[1] = "CommandOutput" -> handle_command_output_input(m, key)

\* the loop after the handler h of a key press returned or reached its redraw
after_key(u, ev, h) ==
    [u EXCEPT !.mode = Some(h.mode), !.event = Some(ev), !.pending = h.run,
              !.pc = IF h.quit THEN "cleanup"
                     ELSE IF h.run /= None THEN "force_redraw" ELSE "draw",
              !.result = IF h.quit THEN Some(Ok(<<>>)) ELSE None]

\* the loop after event::read(): an error leaves the loop, only a key press
\* is handled
after_event(u, ev) ==
    IF ev.kind = "Error"
    THEN [u EXCEPT !.pc = "cleanup", !.result = Some(Err("event::read")), !.event = Some(ev)]
    ELSE IF ev.kind /= "Press" THEN [u EXCEPT !.pc = "draw", !.event = Some(ev)]
    ELSE after_key(u, ev, dispatch(u.mode[1], ev.code))

\* the text execute_git_* returns: it names the command and the repository
\* and says whether git succeeded
command_output(action, report, success) == <<action, report.name, report.path, success>>

\* the first lines of run(): nothing to show, or the loop starts
Run ==
    /\ ui.pc = "new"
    /\ ui' = IF ui.mode[1].repos = <<>>
             THEN [ui EXCEPT !.pc = "returned", !.result = Some(Ok(<<>>))]
             ELSE [ui EXCEPT !.pc = "draw"]
    /\ UNCHANGED <<main_repos, stdout>>
    /\ UNCHANGED <<scanVars, unitVars, runVars>>

\* terminal.draw at the head of the loop; drawing hides the cursor
Draw ==
    /\ ui.pc = "draw"
    /\ \E ok \in BOOLEAN :
          ui' = IF ok THEN [ui EXCEPT !.pc = "read", !.terminal.cursor = FALSE]
                ELSE [ui EXCEPT !.pc = "cleanup", !.result = Some(Err("draw"))]
    /\ UNCHANGED <<main_repos, stdout>>
    /\ UNCHANGED <<scanVars, unitVars, runVars>>

\* event::read() and the handler of the current view
ReadEvent ==
    /\ ui.pc = "read"
    /\ \E ev \in Events : ui' = after_event(ui, ev)
    /\ UNCHANGED <<main_repos, stdout>>
    /\ UNCHANGED <<scanVars, unitVars, runVars>>

\* force_redraw inside the actions handler, with the loading view set
ForceRedraw ==
    /\ ui.pc = "force_redraw"
    /\ \E ok \in BOOLEAN :
          ui' = IF ok THEN [ui EXCEPT !.pc = "execute", !.terminal.cursor = FALSE]
                ELSE [ui EXCEPT !.pc = "cleanup", !.result = Some(Err("draw"))]
    /\ UNCHANGED <<main_repos, stdout>>
    /\ UNCHANGED <<scanVars, unitVars, runVars>>

\* execute_git_* inside the actions handler: git cannot be started, or it
\* ran and succeeded or failed; then the output view
Execute ==
    /\ ui.pc = "execute"
    /\ \E outcome \in {"io error", "success", "failure"} :
          ui' = IF outcome = "io error"
                THEN [ui EXCEPT !.pc = "cleanup", !.result = Some(Err("git"))]
                ELSE [ui EXCEPT !.pc = "draw", !.pending = None,
                                !.mode = Some([ui.mode[1] EXCEPT !.current_view =
                                    CommandOutput(ui.mode[1].current_view[2],
                                                  CommandName(ui.pending[1]),
                                                  command_output(ui.pending[1],
                                                      ui.mode[1].repos[ui.mode[1].current_view[2] + 1],
                                                      outcome = "success"))])]
    /\ UNCHANGED <<main_repos, stdout>>
    /\ UNCHANGED <<scanVars, unitVars, runVars>>

\* the steps of cleanup() that can fail
CleanupFaults == {"none", "disable_raw_mode", "LeaveAlternateScreen", "show_cursor"}

\* the terminal after cleanup(), which stops at its first failing step
cleanup(t, fault) ==
    [raw |-> IF fault = "disable_raw_mode" THEN t.raw ELSE FALSE,
     alternate |-> IF fault \in {"disable_raw_mode", "LeaveAlternateScreen"}
                   THEN t.alternate ELSE FALSE,
     cursor |-> IF fault = "none" THEN TRUE ELSE t.cursor]

\* the end of run(): self.cleanup()? and the result of the loop
Cleanup ==
    /\ ui.pc = "cleanup"
    /\ \E fault \in CleanupFaults :
          ui' = [ui EXCEPT !.pc = "returned",
                           !.terminal = cleanup(ui.terminal, fault),
                           !.result = IF fault = "none" THEN ui.result ELSE Some(Err(fault))]
    /\ UNCHANGED <<main_repos, stdout>>
    /\ UNCHANGED <<scanVars, unitVars, runVars>>

MaxRows == 2

\* the name of the i-th report of the scan
RowName(i) == <<CharOrder[Len(CharOrder) - ((i - 1) % Len(CharOrder))]>>

\* the lists of reports the interactive mode is started on
RowLists ==
    UNION {{[i \in 1..n |-> Report(RowName(i), c[i], i)] :
               c \in [1..n -> {St("Clean"), Dirty(1)}]} : n \in 0..MaxRows}

InteractiveInit ==
    /\ main_repos \in RowLists
    /\ args \in [non_clean : BOOLEAN, output : {FormatTable}, output_file : {None}]
    /\ stdout = None
    /\ ui = NoUi
    /\ disk = <<>>
    /\ pc = <<>>
    /\ out = <<>>
    /\ tmp = <<>>
    /\ lock_repos = 0
    /\ lock_failed = 0
    /\ repos = <<>>
    /\ failed_repos = <<>>
    /\ returned = None
    /\ repo = NoRepo
    /\ call = NoCall
    /\ walker = <<>>
    /\ scans = <<>>

InteractiveNext ==
    \/ New
    \/ Run
    \/ Draw
    \/ ReadEvent
    \/ ForceRedraw
    \/ Execute
    \/ Cleanup

SpecInteractive == InteractiveInit /\ [][InteractiveNext]_vars

----------------------------------------------------------------------------
(* Properties of the gitinfo functions *)

\* the status a repository state that is not Clean must give
StateStatus(s) ==
    CASE s = "Merge" -> "Merge"
      [] s \in {"Revert", "RevertSequence"} -> "Revert"
      [] s \in {"CherryPick", "CherryPickSequence"} -> "CherryPick"
      [] s = "Bisect" -> "Bisect"
      [] s \in {"Rebase", "RebaseInteractive", "RebaseMerge"} -> "Rebase"
      [] s \in {"ApplyMailbox", "ApplyMailboxOrRebase"} -> "Unknown"

\* the entries that count as a change: untracked, modified, deleted,
\* conflicted, staged or unstaged; not the ignored one, not a mere type change
QualifyingFiles ==
    {"untracked", "modified", "staged_modified", "deleted", "staged_new", "conflicted"}

\* C2: whenever an operation is in progress, Status::new is decided by it
\* alone, whatever the working tree holds and whether or not the status
\* listing would succeed; an active merge with modifications is Merge.
C2_StatePriority ==
    (call.fn = "Status::new" /\ call.on.state /= "Clean") =>
        call.res = St(StateStatus(call.on.state))

\* an active merge over a working tree with modifications
C2_Witness ==
    /\ call.fn = "Status::new"
    /\ call.on.state = "Merge"
    /\ "modified" \in call.on.wt
    /\ call.res = St("Merge")

PushStatusOf(r) ==
    IF r.head \in {"missing", "unborn", "badname"} THEN "Unknown"
    ELSE IF r.head = "detached" THEN "Detached"
    ELSE IF r.remotes = <<>> THEN "Unpublished"
    ELSE LET rm == IF "origin" \in Configured(r.remotes) THEN "origin" ELSE r.remotes[1]
         IN  IF r.tracking[rm].kind /= "direct" THEN "Unpublished"
             ELSE IF ~r.graph_ok THEN "Unknown"
             ELSE IF r.tip \ r.tracking[rm].oid /= {} THEN "Unpushed"
             ELSE "Clean"

UpstreamResolves(r) ==
    /\ r.head = "branch"
    /\ r.upstream /= None
    /\ r.tracking[r.upstream[1]].kind = "direct"

\* C5: get_ahead_behind_and_local_status is (0, 0, true) whenever the
\* upstream cannot be resolved and has is_local_only = false whenever it
\* resolves; in every report is_local_only implies ahead = 0 and behind = 0.
C5_LocalOnly ==
    /\ call.fn = "get_ahead_behind_and_local_status" =>
          IF UpstreamResolves(call.on) THEN call.res[3] = FALSE
          ELSE call.res = <<0, 0, TRUE>>
    /\ (call.fn = "RepoInfo::new" /\ call.res.ok) =>
          /\ call.res.val.is_local_only <=>
                ~UpstreamResolves(IF call.fetch THEN after_fetch(call.on) ELSE call.on)
          /\ call.res.val.is_local_only =>
                (call.res.val.ahead = 0 /\ call.res.val.behind = 0)

\* a branch without a configured upstream although origin/main exists
C5_Witness ==
    /\ call.fn = "get_ahead_behind_and_local_status"
    /\ call.on.head = "branch"
    /\ call.on.upstream = None
    /\ call.on.tracking["origin"] = Direct(CommitA)
    /\ call.res = <<0, 0, TRUE>>

\* C6 (as claimed): no report has status Unpushed while ahead = 0 or
\* is_local_only, status Clean while ahead > 0, or status Unpublished while
\* not is_local_only.
C6_ConsistentReport ==
    (call.fn = "RepoInfo::new" /\ call.res.ok) =>
        LET rep == call.res.val
        IN  /\ rep.status.tag = "Unpushed" => (rep.ahead > 0 /\ ~rep.is_local_only)
            /\ rep.status.tag = "Clean" => (rep.ahead = 0 /\ ~rep.has_unpushed)
            /\ rep.status.tag = "Unpublished" => rep.is_local_only

----------------------------------------------------------------------------
(* Properties of the scan *)

Count(seq, x) == Cardinality({i \in 1..Len(seq) : seq[i] = x})

\* the repository root of a walked entry, as the file system has it
RootIsSelf(e) == disk[e].self.is_dir /\ disk[e].self.dot_git

RootIsSub(e) ==
    /\ ~RootIsSelf(e)
    /\ args.subdir = Some(Checkout)
    /\ disk[e].sub.is_dir /\ disk[e].sub.dot_git

HasRoot(e) == RootIsSelf(e) \/ RootIsSub(e)

RootPath(e) == IF RootIsSelf(e) THEN EntryPath(e) ELSE Append(EntryPath(e), Checkout)

RootDir(e) == IF RootIsSelf(e) THEN disk[e].self ELSE disk[e].sub

RootRepo(e) == IF RootIsSelf(e) THEN disk[e].self_repo ELSE disk[e].sub_repo

Reported(e) == \E i \in 1..Len(returned[1].repos) : returned[1].repos[i].path = RootPath(e)

ReportOf(e) ==
    CHOOSE rep \in {returned[1].repos[i] : i \in 1..Len(returned[1].repos)} :
        rep.path = RootPath(e)

\* C1: when find_repositories has returned, every worker had finished, and
\* every walked entry that passes the repository-root check has contributed
\* exactly one element to exactly one of the two returned lists, entries that
\* do not pass have contributed nothing, and no push was lost or duplicated.
C1_ExactlyOnce ==
    returned /= None =>
        /\ all_workers_finished
        /\ LET rs == returned[1].repos
               fs == returned[1].failed
           IN  /\ \A e \in Entries : HasRoot(e) <=> out[e].kind /= "none"
               /\ Len(rs) + Len(fs) = Cardinality({e \in Entries : HasRoot(e)})
               /\ \A e \in Entries :
                    out[e].kind = "repo" =>
                        /\ Count(rs, out[e].val) = 1
                        /\ Cardinality({i \in 1..Len(rs) : rs[i].path = RootPath(e)}) = 1
               /\ \A e \in Entries :
                    out[e].kind = "failed" =>
                        /\ ~Reported(e)
                        /\ Count(fs, out[e].val) =
                             Cardinality({x \in Entries : out[x].kind = "failed"
                                                          /\ out[x].val = out[e].val})

\* the scan has returned and two workers had appended to the same list
C1_Witness ==
    /\ returned /= None
    /\ Len(returned[1].repos) >= 2 \/ Len(returned[1].failed) >= 2

C8_NoComputeFailure ==
    (returned /= None /\ ~args.fetch) =>
        \A e \in Entries : (HasRoot(e) /\ RootDir(e).open_ok) => Reported(e)

\* C9 (as claimed): every candidate that has a repository root and no report
\* is in failed_repos under its own display name, the last segment of the
\* walked path.
C9_FailureName ==
    returned /= None =>
        \A e \in Entries :
            (HasRoot(e) /\ ~Reported(e)) =>
                Count(returned[1].failed, EntryName(e)) = 1

\* C10: the effective root is the entry itself when it is a git directory,
\* else entry/subdir when that is configured and a git directory; any other
\* entry is dropped and is in neither list, so without any root the result
\* is ([], []).
C10_EffectiveRoot ==
    returned /= None =>
        LET rs == returned[1].repos
            fs == returned[1].failed
        IN  /\ Len(rs) + Len(fs) = Cardinality({e \in Entries : HasRoot(e)})
            /\ \A i \in 1..Len(rs) : \E e \in Entries : HasRoot(e) /\ rs[i].path = RootPath(e)
            /\ \A e \in Entries :
                 (HasRoot(e) /\ RootDir(e).open_ok /\ RootDir(e).health = "ok") => Reported(e)
            /\ \A e \in Entries :
                 (HasRoot(e) /\ ~RootDir(e).open_ok) => ~Reported(e)
            /\ (\A e \in Entries : ~HasRoot(e)) => (rs = <<>> /\ fs = <<>>)

\* a dropped entry next to one whose root is its configured subdirectory
C10_Witness ==
    /\ returned /= None
    /\ \E e \in Entries : ~HasRoot(e) /\ disk[e].self.is_dir
    /\ \E e \in Entries : RootIsSub(e) /\ Reported(e)

----------------------------------------------------------------------------
(* Properties of the directory walk *)

RECURSIVE CanReach(_)
\* every directory above node n exists and can be read
CanReach(n) ==
    IF n = 0 THEN disk[0].exists
    ELSE /\ CanReach(TreeParent[n])
         /\ disk[TreeParent[n]].self.is_dir
         /\ disk[TreeParent[n]].readable

Walked == {walker[i] : i \in 1..Len(walker)}

\* the repository roots of the reports the scan returned
ReportedPaths == {returned[1].repos[i].path : i \in 1..Len(returned[1].repos)}

\* the tree of the nested-repositories test: repositories one, two and three
\* levels below a plain root, plain directories between them
NestedTree ==
    /\ \A n \in TreeNodes : disk[n].exists /\ disk[n].readable
    /\ \A n \in {1, 3, 5} : disk[n].self = GoodGit("ok")
    /\ \A n \in {0, 2, 4, 6} : disk[n].self = PlainDir

\* C11: the walked candidates are the root and every entry at depth at most
\* max(depth, 1) when depth >= 0, and the whole tree when depth is negative,
\* so depth 0 walks what depth 1 walks; on the tree with repositories at
\* levels 1, 2 and 3, depth 1 reports the level-1 repository only and depth 3
\* reports all three
C11_WalkDepth ==
    /\ call /= NoCall /\ call.fn = "WalkDir" =>
          Walked = {TreePath(n) : n \in
                       {m \in TreeNodes :
                           /\ CanReach(m)
                           /\ \/ args.depth < 0
                              \/ Level(m) <= IF args.depth > 1 THEN args.depth ELSE 1}}
    /\ returned /= None /\ NestedTree /\ args.depth \in {0, 1} =>
          /\ ReportedPaths = {TreePath(1)}
          /\ Len(returned[1].repos) = 1 /\ returned[1].failed = <<>>
    /\ returned /= None /\ NestedTree /\ args.depth = 3 =>
          /\ ReportedPaths = {TreePath(1), TreePath(3), TreePath(5)}
          /\ Len(returned[1].repos) = 3 /\ returned[1].failed = <<>>

\* a scan with depth 0 of the nested tree has returned the level-1 repository
C11_Witness ==
    /\ returned /= None
    /\ NestedTree
    /\ args.depth = 0
    /\ ReportedPaths = {TreePath(1)}
    /\ TreePath(3) \notin Walked

\* C12: a root path that cannot be read is fatal for the scan, which reports
\* an error instead of a pair of lists; a directory below the root that cannot
\* be read is skipped, and nothing in it appears in either list
C12_RootFatal ==
    returned /= None =>
        /\ ~disk[0].exists => "err" \in DOMAIN returned[1]
        /\ \A n \in TreeNodes :
              disk[0].exists /\ ~CanReach(n) =>
                  /\ TreePath(n) \notin Walked
                  /\ "repos" \in DOMAIN returned[1]
                  /\ TreePath(n) \notin ReportedPaths
                  /\ \A i \in 1..Len(returned[1].failed) :
                        returned[1].failed[i] /= TreeNames[n]

----------------------------------------------------------------------------
(* Properties of the locking of the scan *)

\* a worker holds a lock only between its write() and the end of its push
LockOnlyForPush ==
    \A e \in Entries :
        /\ lock_repos = e => pc[e] \in {"locked", "read"} /\ out[e].kind = "repo"
        /\ lock_failed = e => pc[e] \in {"locked", "read"} /\ out[e].kind = "failed"

\* C13: no worker holds the lock of a result collection while it opens,
\* fetches, classifies or measures, the lock is held for the single push
\* only; so a worker that has its result appends it whatever the other
\* workers are blocked in, and when the closure of every worker terminates
\* the scan returns
C13_NoLockWhileWorking ==
    /\ [](LockOnlyForPush)
    /\ \A f \in Entries : (pc[f] = "push") ~> (pc[f] = "done")
    /\ (\A e \in Entries : <>(pc[e] /= "start")) => <>(returned /= None)

\* a worker has appended its report while another one is still fetching
C13_Witness ==
    \E e, f \in Entries :
        /\ pc[e] = "start" /\ args.fetch /\ HasRoot(e) /\ RootDir(e).open_ok
        /\ pc[f] = "done" /\ out[f].kind = "repo"
        /\ \E i \in 1..Len(repos) : repos[i] = out[f].val

----------------------------------------------------------------------------
(* Properties of the fast-forward *)

\* the fast-forward is possible and allowed: HEAD is a branch whose upstream
\* resolves, the analysis works and says fast-forward, merge.ff allows it
CanFastForward(r) ==
    /\ head_ok(r) /\ head_is_branch(r)
    /\ branch_upstream(r) /= None
    /\ ref_target(r, branch_upstream(r)[1]) /= None
    /\ r.merge_ok /\ ~r.no_ff
    /\ r.tip \subseteq ref_target(r, branch_upstream(r)[1])[1]
    /\ r.tip /= ref_target(r, branch_upstream(r)[1])[1]

\* C14 (as claimed): merge_ff moves the branch and the working tree only when
\* HEAD is a branch with a resolvable upstream, the analysis says fast-forward
\* and the preference allows it; in every other case it returns false without
\* an error and leaves the repository as it was.
C14_SkipSilently ==
    (call /= NoCall /\ call.fn = "merge_ff") =>
        /\ (repo.tip /= call.on.tip \/ repo.checkout /= call.on.checkout)
              => CanFastForward(call.on)
        /\ ~CanFastForward(call.on) => (call.res = Ok(FALSE) /\ repo = call.on)

\* the clone as RepoInfo::new of scan i measures it
Measured(i) ==
    IF args.fetch \/ args.fast_forward THEN after_fetch(scans[i].on) ELSE scans[i].on

\* every measurement of scan i works
Measurable(i) ==
    /\ (args.fetch \/ args.fast_forward) => fetch_origin(scans[i].on).ok
    /\ get_total_commits(Measured(i)).ok

\* scan i and scan j saw the same remote
SameRemote(i, j) == scans[i].on.server = scans[j].on.server

\* C15: a fast-forward that fails after its pre-checks, in the checkout or in
\* the reference update, is recovered: the repository is in the success list
\* with fast_forwarded = false and not in failed_repos
C15_MergeErrorRecovered ==
    \A i \in 1..Len(scans) :
        (/\ args.fast_forward
         /\ Measurable(i)
         /\ CanFastForward(Measured(i))
         /\ ~Measured(i).checkout_ok \/ ~Measured(i).set_target_ok)
        => /\ Len(scans[i].repos) = 1
           /\ ~scans[i].repos[1].fast_forwarded
           /\ scans[i].failed = <<>>

\* a scan whose fast-forward checked the tree out and then could not move
\* the branch
C15_Witness ==
    \E i \in 1..Len(scans) :
        /\ args.fast_forward
        /\ Measurable(i)
        /\ CanFastForward(Measured(i))
        /\ Measured(i).checkout_ok /\ ~Measured(i).set_target_ok
        /\ Len(scans[i].repos) = 1

\* C16 (as claimed): a scan that fast-forwards reports behind = 0 and
\* fast_forwarded = true on that same pass.
C16_BehindZeroSamePass ==
    \A i \in 1..Len(scans) :
        (Len(scans[i].repos) = 1 /\ scans[i].repos[1].fast_forwarded)
        => scans[i].repos[1].behind = 0

\* C16 (amended): a scan that fast-forwards reports fast_forwarded = true
\* together with the behind count it measured before the merge, which is at
\* least 1; the next scan of the same remote reports behind = 0 and
\* fast_forwarded = false
C16_BehindBeforeMerge ==
    \A i \in 1..Len(scans) :
        (Len(scans[i].repos) = 1 /\ scans[i].repos[1].fast_forwarded)
        => /\ scans[i].repos[1].behind >= 1
           /\ scans[i].repos[1].behind =
                 Cardinality(ref_target(Measured(i), "origin")[1] \ Measured(i).tip)
           /\ (i + 1 <= Len(scans) /\ SameRemote(i, i + 1))
                 => /\ Len(scans[i + 1].repos) = 1
                    /\ scans[i + 1].repos[1].behind = 0
                    /\ ~scans[i + 1].repos[1].fast_forwarded

\* a scan has fast-forwarded and the next scan has seen the same remote
C16_Witness ==
    \E i \in 1..Len(scans) :
        /\ Len(scans[i].repos) = 1 /\ scans[i].repos[1].fast_forwarded
        /\ i + 1 <= Len(scans) /\ SameRemote(i, i + 1)
        /\ Len(scans[i + 1].repos) = 1

\* a clone that is even with its remote and in which nothing fails
EvenClone(r) ==
    /\ r.head = "branch" /\ r.upstream = Some("origin")
    /\ r.tracking["origin"] = Direct(r.tip) /\ r.server = r.tip
    /\ r.fetch_ok /\ r.merge_ok /\ ~r.no_ff /\ r.checkout_ok /\ r.set_target_ok

\* one report, no failure
OneSuccess(i) == Len(scans[i].repos) = 1 /\ scans[i].failed = <<>>

\* C17: three scans with fast-forward of a clone that starts even with its
\* remote: the first reports fast_forwarded = false; after the remote has
\* gained a commit the second reports fast_forwarded = true with behind = 1
\* and the commit count of before the merge; the third reports behind = 0,
\* one commit more and fast_forwarded = false; each scan gives one success
\* and no failure
C17_ThreeScans ==
    (args.fast_forward /\ Len(scans) >= 1 /\ EvenClone(scans[1].on)) =>
        /\ OneSuccess(1) /\ ~scans[1].repos[1].fast_forwarded
        /\ (Len(scans) >= 2 /\ scans[2].on.server = scans[1].on.server \cup {NewCommit}
            /\ NewCommit \notin scans[1].on.server) =>
              /\ OneSuccess(2) /\ scans[2].repos[1].fast_forwarded
              /\ scans[2].repos[1].behind = 1
              /\ scans[2].repos[1].commits = Cardinality(scans[1].on.tip)
              /\ (Len(scans) >= 3 /\ SameRemote(2, 3)) =>
                    /\ OneSuccess(3) /\ ~scans[3].repos[1].fast_forwarded
                    /\ scans[3].repos[1].behind = 0
                    /\ scans[3].repos[1].commits = Cardinality(scans[1].on.tip) + 1

\* the three scans of the fast-forward test have run
C17_Witness ==
    /\ args.fast_forward /\ ~args.fetch
    /\ Len(scans) = 3
    /\ EvenClone(scans[1].on)
    /\ NewCommit \notin scans[1].on.server
    /\ scans[2].on.server = scans[1].on.server \cup {NewCommit}
    /\ SameRemote(2, 3)
    /\ scans[2].repos[1].fast_forwarded

\* two scans report the same status, ahead, behind and commit count, or both
\* report the same failure
SameMeasures(i, j) ==
    /\ scans[i].failed = scans[j].failed
    /\ Len(scans[i].repos) = Len(scans[j].repos)
    /\ Len(scans[i].repos) = 1 =>
          /\ scans[i].repos[1].status = scans[j].repos[1].status
          /\ scans[i].repos[1].ahead = scans[j].repos[1].ahead
          /\ scans[i].repos[1].behind = scans[j].repos[1].behind
          /\ scans[i].repos[1].commits = scans[j].repos[1].commits

----------------------------------------------------------------------------
(* Properties of a repository without commits, and of the stash count *)

\* a repository with an unborn HEAD, no operation in progress and nothing
\* changed in its working tree
EmptyRepository(r) ==
    /\ r.head = "unborn"
    /\ r.state = "Clean"
    /\ r.list_ok /\ r.count_ok
    /\ \A f \in statuses(r, TRUE, FALSE) : FileStatus(f) \cap ChangeFlags = {}

\* C19 (as claimed): a repository with zero commits and no working-tree change
\* is classified Clean or Unpublished, never Unknown, Detached or Unpushed;
\* its commit count is 0 and its report is a success.
C19_EmptyRepository ==
    (call /= NoCall /\ EmptyRepository(call.on)) =>
        /\ call.fn = "Status::new" => call.res.tag \in {"Clean", "Unpublished"}
        /\ call.fn = "get_total_commits" => call.res = Ok(0)
        /\ (call.fn = "RepoInfo::new" /\ ~call.fetch) =>
              /\ call.res.ok
              /\ call.res.val.commits = 0
              /\ call.res.val.status.tag \in {"Clean", "Unpublished"}

\* C20: get_stash_count returns the exact number of stash entries when the
\* stash can be listed (0 without a stash, 2 after two saves), and 0, never
\* an error and never a partial count, when the listing fails; the report of
\* the repository carries that count
C20_StashCount ==
    call /= NoCall =>
        /\ call.fn = "get_stash_count" =>
              call.res = IF call.on.stash_ok THEN call.on.stashes ELSE 0
        /\ (call.fn = "RepoInfo::new" /\ call.res.ok) =>
              call.res.val.stash_count = IF call.on.stash_ok THEN call.on.stashes ELSE 0

\* the count of a repository with two stash entries whose listing fails
C20_Witness ==
    /\ call /= NoCall
    /\ call.fn = "get_stash_count"
    /\ call.on.stashes = 2
    /\ ~call.on.stash_ok
    /\ call.res = 0

----------------------------------------------------------------------------
(* C21 *)

\* the remote the resolution rule names: "origin" when it is configured,
\* else the first remote of the enumeration, else none
Preferred(r) ==
    IF "origin" \in Configured(r.remotes) THEN Some("origin")
    ELSE IF r.remotes = <<>> THEN None
    ELSE Some(Head(r.remotes))

\* the name derived from one URL
NameOfUrl(url) == rsplit_first(trim_end_matches(url, DotGit), Slash)

\* C21: remote resolution returns "origin" whenever it is configured, in
\* whatever position of the enumeration; otherwise the first remote;
\* otherwise None.  get_remote_url returns that remote's URL, the display
\* name is derived from that remote's URL, and a fetch asks for that remote:
\* it fails with "No remotes found" exactly when there is none, and a
\* successful one moves the remote-tracking reference of that remote only.
C21_PreferOrigin ==
    LET p == Preferred(call.on)
    IN  /\ call.fn = "get_remote_name" => call.res = p
        /\ call.fn = "get_remote_url" =>
               call.res = IF p = None THEN None ELSE Some(call.on.url[p[1]])
        /\ call.fn = "get_repo_name" =>
               call.res = IF p = None THEN None ELSE Some(NameOfUrl(call.on.url[p[1]]))
        /\ call.fn = "fetch_origin" =>
               /\ (call.res = Err("No remotes found")) <=> (p = None)
               /\ \A rm \in RemoteNames :
                      repo.tracking[rm] /= call.on.tracking[rm] => call.res.ok /\ p = Some(rm)
               /\ call.res.ok => repo.tracking[p[1]] = Direct(call.on.server)

\* "origin" was added after another remote, and each of the four operations
\* resolved to it
C21_Witness ==
    /\ call.fn = "fetch_origin"
    /\ call.on.remotes = <<"upstream", "origin">>
    /\ call.res.ok
    /\ repo.tracking["origin"] /= call.on.tracking["origin"]
    /\ repo.tracking["upstream"] = call.on.tracking["upstream"]

----------------------------------------------------------------------------
(* C22 *)

\* s without suf at its end, when it ends with suf: one removal
strip_one(s, suf) ==
    IF Len(s) >= Len(suf) /\ SubSeq(s, Len(s) - Len(suf) + 1, Len(s)) = suf
    THEN SubSeq(s, 1, Len(s) - Len(suf))
    ELSE s

\* the final path segment of a URL after stripping a trailing "/" and one
\* trailing ".git"
FinalSegment(url) == rsplit_first(strip_one(strip_one(url, <<Slash>>), DotGit), Slash)

\* the display name the rule gives: the final segment of the resolved
\* remote's URL, or the directory name when there is no remote or the
\* segment is empty
DisplayName(r, dir) ==
    IF Preferred(r) = None THEN dir
    ELSE IF FinalSegment(r.url[Preferred(r)[1]]) = <<>> THEN dir
    ELSE FinalSegment(r.url[Preferred(r)[1]])

\* C22: the display name of a report is the final path segment of the
\* resolved remote's URL after stripping a trailing "/" and one trailing
\* ".git" suffix, and the directory name passed by the scan when there is
\* no remote or the URL yields no non-empty segment.
C22_DisplayName ==
    (call.fn = "RepoInfo::new" /\ call.res.ok) =>
        call.res.val.name = DisplayName(call.on, UnitName)

----------------------------------------------------------------------------
(* C23 *)

\* C23: get_branch_name returns the short branch name when HEAD is a branch
\* with commits, "<name> (no commits)" when HEAD names a branch that has no
\* commit yet, "N/A" when HEAD is detached and "(no branch)" when HEAD
\* cannot be read; the result is never empty.
C23_BranchName ==
    call.fn = "get_branch_name" =>
        /\ call.on.head = "branch" => call.res = call.on.branch
        /\ call.on.head = "unborn" => call.res = call.on.branch \o NoCommits
        /\ call.on.head = "detached" => call.res = DetachedMarker
        /\ call.on.head = "missing" => call.res = NoBranch
        /\ call.res /= <<>>

----------------------------------------------------------------------------
(* C24 *)

Elements(v) == {v[i] : i \in 1..Len(v)}

\* the reports as the scan returned them: the path of a report is its
\* position in that list
Given == [i \in 1..Len(main_repos) |-> CHOOSE r \in Elements(main_repos) : r.path = i]

\* in the order of the ASCII-lowercased names
SortedByName(v) ==
    \A i, j \in 1..Len(v) :
        i < j => str_le(to_ascii_lowercase(v[i].name), to_ascii_lowercase(v[j].name))

\* rows holds the reports of v to be shown, once each and in the order of v
RowsOf(rows, v, non_clean) ==
    /\ Elements(rows) = {r \in Elements(v) : non_clean => r.status /= St("Clean")}
    /\ \A i, j \in 1..Len(rows) :
          i < j => \E k, l \in 1..Len(v) : k < l /\ v[k] = rows[i] /\ v[l] = rows[j]

\* the rows repositories_table printed or wrote to the file, if any
TableRows ==
    IF stdout = None THEN None
    ELSE IF stdout[1].printed /= None THEN stdout[1].printed
    ELSE stdout[1].file

\* the rows, the slice and the interactive list are as the rule says; the
\* slice is in sorted order when Sorted says so
Presentation(Sorted) ==
    /\ stdout /= None =>
          /\ Elements(main_repos) = Elements(Given)
          /\ Sorted => SortedByName(main_repos)
          /\ TableRows /= None => RowsOf(TableRows[1], main_repos, args.non_clean)
          /\ (stdout[1].res.ok /\ main_repos /= <<>>) => TableRows /= None
    /\ ui.mode /= None =>
          /\ SortedByName(ui.mode[1].repos)
          /\ Elements(ui.mode[1].repos) =
                {r \in Elements(Given) : args.non_clean => r.status /= St("Clean")}
          /\ Len(ui.mode[1].repos) = Cardinality(Elements(ui.mode[1].repos))
    /\ (TableRows /= None /\ ui.mode /= None) => TableRows[1] = ui.mode[1].repos

\* C24 as stated: the rows shown are the reports sorted by ASCII-lowercased
\* name, without the clean ones when non_clean is set; the table and the
\* interactive list show the same sequence; and repositories_table leaves
\* the caller's slice in sorted order whenever it was called.
C24_SortedPresentation == Presentation(TRUE)

\* C24, amended: the same, and repositories_table leaves the caller's slice
\* in sorted order when it got as far as the sort, that is unless it failed
\* on the output format or on a file output the format does not support
\* (these calls show nothing and leave the slice as it was).
C24_SortedWhenShown ==
    /\ Presentation(stdout /= None /\ (stdout[1].res.ok \/ stdout[1].res.err = "write_to_file"))
    /\ (stdout /= None /\ ~stdout[1].res.ok /\ stdout[1].res.err /= "write_to_file")
          => main_repos = Given /\ TableRows = None

\* an unsorted list with two names that differ in case only and a clean
\* report was shown by both, without the clean report
C24_Witness ==
    /\ TableRows /= None
    /\ ui.mode /= None
    /\ args.non_clean
    /\ Len(Given) = 3
    /\ Given[1].name = <<"B">> /\ Given[2].name = <<"a">> /\ Given[3].name = <<"A">>
    /\ Given[1].status = St("Clean")
    /\ main_repos /= Given
    /\ Len(TableRows[1]) = 2
    /\ TableRows[1][1].name = <<"a">>

----------------------------------------------------------------------------
(* C25 *)

\* C25: within one scan no repository root is reported more than once: for
\* every depth and subdir setting no two reports of the returned list have
\* the same repository directory, also when a directory is reached both as
\* the subdir of its parent and as a walked entry itself.
C25_NoDuplicateRoot ==
    returned /= None =>
        \A i, j \in 1..Len(returned[1].repos) :
            returned[1].repos[i].path = returned[1].repos[j].path => i = j

----------------------------------------------------------------------------
(* C27 *)

\* C27: Status::new never returns Dirty(0): whenever it returns Dirty(n),
\* n >= 1, also when the repository changes between the listing that decides
\* on Dirty and the listing that counts.
C27_NeverDirtyZero ==
    call.fn \in {"Status::new", "Status::new during a change"} =>
        (call.res.tag = "Dirty" => call.res.count >= 1)

----------------------------------------------------------------------------
(* C30 *)

\* C30: merge_ff is all-or-nothing: it returns Ok(true) only when the working
\* tree was checked out at the upstream commit and the branch was moved to
\* it, and when it returns Ok(false) or an error neither the working tree nor
\* the branch has changed.
C30_AllOrNothing ==
    call.fn = "merge_ff" =>
        IF call.res = Ok(TRUE)
        THEN /\ repo.tip = call.on.tracking[call.on.upstream[1]].oid
             /\ repo.checkout = repo.tip
        ELSE repo.tip = call.on.tip /\ repo.checkout = call.on.checkout

----------------------------------------------------------------------------
(* C26 *)

\* raw mode is off, the alternate screen is left and the cursor is shown
Restored(t) == ~t.raw /\ ~t.alternate /\ t.cursor

\* run() returned with the error of a failing step of cleanup() itself
CleanupFailed ==
    /\ ui.result /= None
    /\ ~ui.result[1].ok
    /\ ui.result[1].err \in CleanupFaults

\* C26: every InteractiveMode that new() built, with the terminal switched
\* to the alternate screen and raw mode, has restored the terminal by the
\* time run() returns, on every exit path: the quit key, an error from
\* drawing, from reading an event or from a git command, and the empty or
\* fully filtered-out list (a failure of the restoring steps themselves
\* set aside).
C26_TerminalRestored ==
    (ui.mode /= None /\ ui.pc = "returned" /\ ~CleanupFailed) => Restored(ui.terminal)

----------------------------------------------------------------------------
(* C28 *)

\* run() is inside interactive_loop
InLoop == ui.pc \in {"draw", "read", "force_redraw", "execute"}

\* the selections and the view of the mode m are within the lists
SelectionsInRange(m) ==
    /\ m.table_state /= None /\ m.table_state[1] \in 0..(Len(m.repos) - 1)
    /\ Len(GitAction_all) = 5
    /\ m.action_list_state /= None /\ m.action_list_state[1] \in 0..(Len(GitAction_all) - 1)
    /\ m.current_view[1] \in {"RepositoryActions", "CommandRunning", "CommandOutput"}
          => m.current_view[2] \in 0..(Len(m.repos) - 1)
    /\ m.current_view[1] = "RepositoryActions"
          => m.current_view[3] = m.action_list_state[1]

\* the step handles a press of key in the view with the given tag
Pressed(key, tag) ==
    /\ ui.pc = "read"
    /\ ui'.event = Some([kind |-> "Press", code |-> key])
    /\ ui.mode[1].current_view[1] = tag

\* Up at the first item and Down at the last item, of the list of
\* repositories and of the list of actions
AtTheEdge ==
    \/ Pressed("Up", "RepositoryList") /\ ui.mode[1].table_state = Some(0)
    \/ Pressed("Down", "RepositoryList")
          /\ ui.mode[1].table_state = Some(Len(ui.mode[1].repos) - 1)
    \/ Pressed("Up", "RepositoryActions") /\ ui.mode[1].action_list_state = Some(0)
    \/ Pressed("Down", "RepositoryActions")
          /\ ui.mode[1].action_list_state = Some(Len(GitAction_all) - 1)

\* C28: in every state of the interactive loop, after any sequence of key
\* presses, the selected row is an index below repos.len(), the selected
\* action is an index below the number of actions (5), every view that
\* names a repository names an index below repos.len(), and the action of
\* RepositoryActions(r, a) is the selected index of the action list; Up at
\* the first item and Down at the last item change nothing.
C28_SelectionsInRange ==
    /\ [](InLoop => SelectionsInRange(ui.mode[1]))
    /\ [][AtTheEdge => (ui'.mode = ui.mode /\ ui'.pc = "draw")]_vars

\* the output of a command on the last of two repositories is shown, for an
\* action that is not the first
C28_Witness ==
    /\ InLoop
    /\ Len(ui.mode[1].repos) = 2
    /\ ui.mode[1].current_view[1] = "CommandOutput"
    /\ ui.mode[1].current_view[2] = 1
    /\ ui.mode[1].table_state = Some(1)
    /\ ui.mode[1].action_list_state = Some(3)

----------------------------------------------------------------------------
(* C29 *)

\* the step handles a press of one of the keys in the view with the tag
PressedIn(keys, tag) == \E k \in keys : Pressed(k, tag)

\* the loop ends without an error
Quits == ui'.pc = "cleanup" /\ ui'.result = Some(Ok(<<>>))

\* the view after the step
GoesTo(view) == ui'.pc = "draw" /\ ui'.mode[1].current_view = view

\* the action selected in the action list
SelectedAction == GitAction_all[ui.mode[1].action_list_state[1] + 1]

\* the view and the selections stay as they are and the loop goes on
Stays == ui'.mode = ui.mode /\ ui'.pc = "draw"

\* the transitions of the keys that leave a view or the loop
KeyTransitions ==
    /\ \A tag \in {"RepositoryList", "RepositoryActions", "CommandOutput"} :
          Pressed("q", tag) => Quits
    /\ Pressed("Esc", "RepositoryList") => Quits
    /\ (\E k \in KeyCodes \ {"q", "Esc"} : Pressed(k, "RepositoryList")) => ~Quits
    /\ (\E k \in KeyCodes \ {"q"} :
           Pressed(k, "RepositoryActions") \/ Pressed(k, "CommandOutput")) => ~Quits
    /\ Pressed("Enter", "RepositoryList") =>
          /\ GoesTo(RepositoryActions(ui.mode[1].table_state[1], 0))
          /\ ui'.mode[1].action_list_state = Some(0)
          /\ ui'.mode[1].table_state = ui.mode[1].table_state
    /\ (\/ PressedIn({"Esc", "Backspace"}, "RepositoryActions")
        \/ Pressed("Enter", "RepositoryActions") /\ SelectedAction = "Back") =>
          /\ GoesTo(RepositoryList)
          /\ ui'.mode[1].table_state = ui.mode[1].table_state
    /\ (Pressed("Enter", "RepositoryActions") /\ SelectedAction /= "Back") =>
          /\ ui'.pc = "force_redraw"
          /\ ui'.mode[1].current_view =
                CommandRunning(ui.mode[1].current_view[2], CommandName(SelectedAction))
    /\ PressedIn({"Enter", "Esc", "Backspace"}, "CommandOutput") =>
          /\ GoesTo(RepositoryActions(ui.mode[1].current_view[2],
                                      ui.mode[1].action_list_state[1]))
          /\ ui'.mode[1].action_list_state = ui.mode[1].action_list_state
          /\ ui'.mode[1].table_state = ui.mode[1].table_state

\* no key is waited for while a command runs, and no step changes the list
\* of repositories or a recorded status
NoWaitNoChange ==
    /\ (ui.mode /= None /\ ui.mode[1].current_view[1] = "CommandRunning") => ui.pc /= "read"
    /\ (ui.mode /= None /\ ui'.mode /= None) => ui'.mode[1].repos = ui.mode[1].repos
    /\ (ui.pc = "read" /\ ui'.event[1].kind \notin {"Press", "Error"}) => Stays

\* from the loading view the loop goes to the output of the same command on
\* the same repository; Failing says when a step may end the loop instead
CommandPasses(Failing) ==
    /\ ui.pc = "force_redraw" =>
          \/ ui'.pc = "execute" /\ ui'.mode = ui.mode
          \/ Failing /\ ui'.pc = "cleanup" /\ ~ui'.result[1].ok /\ ui'.mode = ui.mode
    /\ ui.pc = "execute" =>
          \/ /\ ui'.pc = "draw"
             /\ ui'.mode[1].current_view[1] = "CommandOutput"
             /\ ui'.mode[1].current_view[2] = ui.mode[1].current_view[2]
             /\ ui'.mode[1].current_view[3] = ui.mode[1].current_view[3]
             /\ ui'.mode[1].action_list_state = ui.mode[1].action_list_state
          \/ Failing /\ ui'.pc = "cleanup" /\ ~ui'.result[1].ok /\ ui'.mode = ui.mode

\* the keys the transitions above do not list, per view
OtherKey(listed) ==
    \/ PressedIn(KeyCodes \ ({"q", "Esc", "Enter"} \cup listed), "RepositoryList")
    \/ PressedIn(KeyCodes \ ({"q", "Esc", "Backspace", "Enter"} \cup listed), "RepositoryActions")
    \/ PressedIn(KeyCodes \ {"q", "Esc", "Backspace", "Enter"}, "CommandOutput")

\* C29 as stated: 'q' ends the loop from every view and Esc only from the
\* list; Enter opens the actions of the selected repository with action 0;
\* Esc, Backspace and Enter on Back return to the list; Enter on a git
\* action passes through CommandRunning to CommandOutput of the same
\* repository and command without waiting for input; Enter, Esc and
\* Backspace in the output return to the actions with the action selected
\* before; every other key leaves view and selections unchanged; no key
\* changes the list of repositories or a recorded status.
C29_ViewMachine ==
    [][/\ KeyTransitions
       /\ NoWaitNoChange
       /\ CommandPasses(FALSE)
       /\ OtherKey({}) => Stays]_vars

\* C29, amended: the same transitions, where Up and Down are not among the
\* other keys (they move the selection of the list and of the actions, and
\* leave the view's repository as it is), and where a failing redraw or a
\* git command that cannot be started ends the loop with an error from the
\* loading view instead of reaching the output.
C29_ViewMachineWithMoves ==
    [][/\ KeyTransitions
       /\ NoWaitNoChange
       /\ CommandPasses(TRUE)
       /\ OtherKey({"Up", "Down"}) => Stays
       /\ PressedIn({"Up", "Down"}, "RepositoryList") =>
             /\ GoesTo(RepositoryList)
             /\ ui'.mode[1].action_list_state = ui.mode[1].action_list_state
       /\ PressedIn({"Up", "Down"}, "RepositoryActions") =>
             /\ ui'.pc = "draw"
             /\ ui'.mode[1].current_view[1] = "RepositoryActions"
             /\ ui'.mode[1].current_view[2] = ui.mode[1].current_view[2]
             /\ ui'.mode[1].table_state = ui.mode[1].table_state]_vars

\* Enter in the output of a fetch on the second repository has returned to
\* the actions of that repository, with Fetch still selected
C29_Witness ==
    /\ ui.pc = "draw"
    /\ ui.event = Some([kind |-> "Press", code |-> "Enter"])
    /\ ui.mode[1].current_view = RepositoryActions(1, 2)
    /\ ui.mode[1].action_list_state = Some(2)

====
